---------------------------- MODULE Spec2Model ----------------------------
(***************************************************************************)
(* A model of the LLLang front end and layout code:                        *)
(*   back/layout.rs    Layout, TupleLayout, next_multiple                  *)
(*   front/scope.rs    Scope (nest, declare, find)                         *)
(*   front/type_func.rs TypeFuncState: the walk that fills the type problem *)
(*   front/parser.rs   Tokenizer and Parser                                *)
(*   front/lower.rs    lower, map_function, map_constant                   *)
(* Every component has its own variables and its own specification; the    *)
(* variables of the other components stay at their initial value.          *)
(***************************************************************************)
EXTENDS Integers, Sequences, FiniteSets, TLC

VARIABLES
    lay_op,     \* layout: the last call made ("none", "from_layouts", "for_type")
    lay_in,     \* layout: the field layouts handed to TupleLayout::from_layouts
    lay_ty,     \* layout: the IR type handed to Layout::for_type
    lay_out,    \* layout: the value returned, or the panic raised, by that call
    overflow_checks, \* layout: whether the build panics on integer overflow (as
                \*         the debug profile does) or wraps (as the release profile)
    sc_chain,   \* scope: the live scopes, outermost first; the last one is the
                \*        scope being filled, each one's parent is the one before it
    sc_call,    \* scope: the last call made on the innermost scope and its arguments
    sc_res,     \* scope: what that call returned
    tw_in,      \* type walk: the function (parameters and body) handed to visit_func
    tw_out,     \* type walk: the TypeFuncState after visit_func, with its result
    lx_op,      \* tokenizer: the last call made ("none", "new", "advance",
                \*            "skip_count")
    lx_in,      \* tokenizer: the source text handed to Tokenizer::new
    lx,         \* tokenizer: the Tokenizer (left, pos, curr, next)
    lx_err,     \* tokenizer: the ParseError the last call returned, if any
    lx_tok,     \* tokenizer: the token the last call of advance returned
    lx_eofs,    \* tokenizer: the calls of advance made while Eof was current
    lx_from,    \* tokenizer: the Tokenizer before the last call of skip_count
    lx_count,   \* tokenizer: the count handed to that call
    ps_op,      \* parser: the last call made ("none", "parse_module")
    ps_in,      \* parser: the source text handed to parse_module
    ps_out,     \* parser: what parse_module returned
    lw_op,      \* lowering: the last call made ("none", "lower", "map_constant",
                \*           "map_type")
    lw_in,      \* lowering: the resolved program handed to lower, or the ir program
                \*           and the constant handed to map_constant
    lw_out,     \* lowering: what the call returned
    ir_op,      \* ir: where try_visit_blocks is ("none", "visiting", "returned")
    ir_func,    \* ir: the function visited: its entry and its blocks' terminators
    ir_left,    \* ir: blocks_left, front first
    ir_seen,    \* ir: blocks_seen
    ir_calls,   \* ir: the blocks f was called on, in call order
    ir_res      \* ir: what try_visit_blocks returned

layout_vars == <<lay_op, lay_in, lay_ty, lay_out, overflow_checks>>
scope_vars == <<sc_chain, sc_call, sc_res, tw_in, tw_out>>

lexer_vars == <<lx_op, lx_in, lx, lx_err, lx_tok, lx_eofs, lx_from, lx_count>>

parser_vars == <<ps_op, ps_in, ps_out>>

lower_vars == <<lw_op, lw_in, lw_out>>

ir_vars == <<ir_op, ir_func, ir_left, ir_seen, ir_calls, ir_res>>

vars == <<layout_vars, scope_vars, lexer_vars, parser_vars, lower_vars, ir_vars>>

\* The variables of the other components, which a component leaves alone.
not_layout == <<scope_vars, lexer_vars, parser_vars, lower_vars, ir_vars>>
not_scope == <<layout_vars, lexer_vars, parser_vars, lower_vars, ir_vars>>
not_lexer == <<layout_vars, scope_vars, parser_vars, lower_vars, ir_vars>>
not_parser == <<layout_vars, scope_vars, lexer_vars, lower_vars, ir_vars>>
not_lower == <<layout_vars, scope_vars, lexer_vars, parser_vars, ir_vars>>
not_ir == <<layout_vars, scope_vars, lexer_vars, parser_vars, lower_vars>>

(***************************************************************************)
(* Generic helpers                                                         *)
(***************************************************************************)

\* All sequences over S of length 0..n.
SeqsUpTo(S, n) == UNION {[1..k -> S] : k \in 0..n}

\* std::cmp::max
max(a, b) == IF a >= b THEN a ELSE b

\* Rust's integer division truncates toward zero (b > 0 here): the floor
\* that \div gives is one too low for a negative a that b does not divide.
RustDiv(a, b) == IF a >= 0 \/ a % b = 0 THEN a \div b ELSE (a \div b) + 1

\* Rust's remainder has the sign of the dividend.
RustRem(a, b) == a - b * RustDiv(a, b)

\* i32::count_ones for a non-negative value.
RECURSIVE count_ones(_)
count_ones(n) == IF n = 0 THEN 0 ELSE (n % 2) + count_ones(n \div 2)

(***************************************************************************)
(* back/layout.rs                                                          *)
(***************************************************************************)

NoPanic == "none"

\* A Layout value, or the panic of the assertion of Layout::new that failed.
MkLayout(size, alignment) ==
    [kind |-> "Layout", size |-> size, alignment |-> alignment, panic |-> NoPanic]

LayoutPanic(msg) ==
    [kind |-> "Layout", size |-> 0, alignment |-> 0, panic |-> msg]

\* i32::MAX
i32_MAX == 2147483647

\* The outcome of an i32 computation: its value, or the panic it raises.  An
\* overflow has both: `panic` is raised by a build with overflow checks, and
\* `i32`, the result wrapped to 32 bits, is computed by a build without.
I32Value(v) == [panic |-> NoPanic, i32 |-> v]
I32Panic(msg) == [panic |-> msg, i32 |-> 0]

OverflowPanics ==
    {"attempt to add with overflow", "attempt to subtract with overflow",
     "attempt to multiply with overflow"}

\* a + b leaves the i32 range.
add_overflows(a, b) ==
    \/ b > 0 /\ a > i32_MAX - b
    \/ b < 0 /\ a < (-i32_MAX - 1) - b

\* i32::wrapping_add: the sum modulo 2^32.
wrapping_add(a, b) ==
    IF b > 0 /\ a > i32_MAX - b THEN ((a - i32_MAX) - 1) + ((b - i32_MAX) - 1)
    ELSE IF b < 0 /\ a < (-i32_MAX - 1) - b THEN ((a + i32_MAX) + 1) + ((b + i32_MAX) + 1)
    ELSE a + b

\* a + b on i32
i32_add(a, b) ==
    IF add_overflows(a, b)
    THEN [panic |-> "attempt to add with overflow", i32 |-> wrapping_add(a, b)]
    ELSE I32Value(a + b)

\* a - 1 on i32
i32_decrement(a) ==
    IF a = -i32_MAX - 1
    THEN [panic |-> "attempt to subtract with overflow", i32 |-> i32_MAX]
    ELSE I32Value(a - 1)

\* i32::wrapping_mul for b >= 0, by doubling (a * b = b * a).
RECURSIVE wrapping_mul(_, _)
wrapping_mul(a, b) ==
    IF b = 0 THEN 0
    ELSE LET half == wrapping_mul(a, b \div 2)
             double == wrapping_add(half, half)
         IN  IF b % 2 = 1 THEN wrapping_add(double, a) ELSE double

\* a * b leaves the i32 range, for a >= 0 (the size of a Layout).
mul_overflows(a, b) ==
    a > 0 /\ (b > i32_MAX \div a \/ b < ((-i32_MAX - 1) + (a - 1)) \div a)

\* a * b on i32, for a >= 0
i32_mul(a, b) ==
    IF mul_overflows(a, b)
    THEN [panic |-> "attempt to multiply with overflow", i32 |-> wrapping_mul(b, a)]
    ELSE I32Value(a * b)

\* A u32 is held as its bit 31 and its 31 low bits: U32(n) for n up to
\* i32::MAX, U32High(n) for 2^31 + n.
U32(n) == [bit31 |-> 0, low |-> n]
U32High(n) == [bit31 |-> 1, low |-> n]

\* `length as i32` for a u32: the same 32 bits, negative when bit 31 is set.
as_i32(u) == IF u.bit31 = 1 THEN (u.low - i32_MAX) - 1 ELSE u.low

\* The outcome a computation has in the build that runs: without overflow
\* checks an overflow is its wrapped value.
in_build(outcome) ==
    IF outcome.panic \in OverflowPanics /\ ~overflow_checks
    THEN I32Value(outcome.i32)
    ELSE outcome

\* Layout::new: the four assertions in order, then the value.
Layout_new(size, alignment) ==
    IF ~(size >= 0) THEN LayoutPanic("size must be >= 0")
    ELSE IF ~(alignment >= 1) THEN LayoutPanic("alignment must be >= 1")
    ELSE IF ~(count_ones(alignment) = 1) THEN LayoutPanic("alignment must be a power of two")
    ELSE IF ~(RustRem(size, alignment) = 0) THEN LayoutPanic("size must be a multiple of alignment")
    ELSE MkLayout(size, alignment)

\* next_multiple(x, div): assert!(div > 0), then (x + div - 1) / div * div,
\* in which x + div is computed first and can overflow.
next_multiple(x, div) ==
    IF ~(div > 0) THEN I32Panic("assertion failed: div > 0")
    ELSE LET sum == i32_add(x, div)
             less == i32_decrement(sum.i32)
         IN  [panic |-> IF sum.panic # NoPanic THEN sum.panic ELSE less.panic,
              i32 |-> RustDiv(less.i32, div) * div]

\* The loop of TupleLayout::from_layouts over fields[i..]: the accumulator is
\* (offsets, next_offset, alignment); a panic ends it.  `fields` is an
\* iterator: fields[i] is what its i-th call of next() gives, a Layout or
\* the panic of that call, which is raised after the body of the loop has
\* run for the fields before it.
RECURSIVE from_layouts_loop(_, _, _, _, _)
from_layouts_loop(fields, i, offsets, next_offset, alignment) ==
    IF i > Len(fields)
    THEN [offsets |-> offsets, next_offset |-> next_offset, alignment |-> alignment,
          panic |-> NoPanic]
    ELSE LET field == fields[i]
             aligned == in_build(next_multiple(next_offset, field.alignment))
             added == in_build(i32_add(aligned.i32, field.size))
             panic == IF field.panic # NoPanic THEN field.panic
                      ELSE IF aligned.panic # NoPanic THEN aligned.panic
                      ELSE added.panic
         IN  IF panic # NoPanic
             THEN [offsets |-> offsets, next_offset |-> next_offset,
                   alignment |-> alignment, panic |-> panic]
             ELSE from_layouts_loop(fields, i + 1, Append(offsets, aligned.i32),
                                    added.i32, max(alignment, field.alignment))

\* Mutant of from_layouts_size: the size is not rounded up to the alignment.
from_layouts_size_unrounded(next_offset, alignment) == I32Value(next_offset)

\* The size handed to Layout::new at the end of from_layouts.
from_layouts_size(next_offset, alignment) == in_build(next_multiple(next_offset, alignment))

MkTupleLayout(layout, offsets) ==
    [kind |-> "TupleLayout", layout |-> layout, offsets |-> offsets, panic |-> layout.panic]

\* TupleLayout::from_layouts
from_layouts(fields) ==
    LET acc == from_layouts_loop(fields, 1, <<>>, 0, 1)
        size == from_layouts_size(acc.next_offset, acc.alignment)
    IN  IF acc.panic # NoPanic THEN MkTupleLayout(LayoutPanic(acc.panic), <<>>)
        ELSE IF size.panic # NoPanic THEN MkTupleLayout(LayoutPanic(size.panic), <<>>)
        ELSE MkTupleLayout(Layout_new(size.i32, acc.alignment), acc.offsets)

(***************************************************************************)
(* IR types as Layout::for_type sees them (TypeInfo, with the handle of an *)
(* inner type replaced by the type it names).                              *)
(***************************************************************************)
TyVoid == [kind |-> "Void"]
TyPointer == [kind |-> "Pointer"]
TyFunc == [kind |-> "Func"]
TyInteger(bits) == [kind |-> "Integer", bits |-> bits]
TyArray(inner, length) == [kind |-> "Array", inner |-> inner, length |-> length]
TyTuple(fields) == [kind |-> "Tuple", fields |-> fields]

\* Layout::for_type and TupleLayout::for_types, which hands from_layouts the
\* lazy map of for_type over the fields: for_type of a field runs when the
\* loop of from_layouts asks for that field.
RECURSIVE for_type(_), for_types(_)
for_type(ty) ==
    CASE ty.kind = "Void" -> Layout_new(0, 1)
      [] ty.kind \in {"Pointer", "Func"} -> Layout_new(4, 4)
      [] ty.kind = "Integer" ->
            CASE ty.bits = 32 -> Layout_new(4, 4)
              [] ty.bits = 16 -> Layout_new(2, 2)
              [] ty.bits = 8 -> Layout_new(1, 1)
              [] ty.bits = 1 -> Layout_new(1, 1)
              [] OTHER -> LayoutPanic("Integer with bits not yet supported")
      [] ty.kind = "Array" ->
            LET inner == for_type(ty.inner)
                size == in_build(i32_mul(inner.size, as_i32(ty.length)))
            IN  IF inner.panic # NoPanic THEN inner
                ELSE IF size.panic # NoPanic THEN LayoutPanic(size.panic)
                ELSE Layout_new(size.i32, inner.alignment)
      [] ty.kind = "Tuple" -> for_types(ty.fields).layout

for_types(fields) == from_layouts([i \in 1..Len(fields) |-> for_type(fields[i])])

(***************************************************************************)
(* Inputs of the layout specification                                      *)
(***************************************************************************)
MaxAlignExp == 2
MaxSize == 3
MaxFields == 3
MaxArrayLen == 2
MaxTypeFields == 2

Pow2(n) == 2 ^ n

\* Every Layout that Layout::new accepts, within the bounds.
ValidLayouts ==
    {l \in {MkLayout(sz, Pow2(e)) : sz \in 0..MaxSize, e \in 0..MaxAlignExp} :
        l.size % l.alignment = 0}

\* The field lists of the unit tests of layout.rs.
TestZeroTotalSize == <<MkLayout(0, 1), MkLayout(0, 4), MkLayout(0, 2)>>
TestMixed == <<MkLayout(1, 1), MkLayout(2, 2), MkLayout(3, 1), MkLayout(3, 1),
               MkLayout(8, 4), MkLayout(1, 1)>>
TestSingleByte == <<MkLayout(1, 1)>>

\* Valid field lists whose packing leaves the i32 range: the layout of
\* [byte; i32::MAX] followed by other fields.
HugeLayout == MkLayout(i32_MAX, 1)
OverflowLayouts ==
    {<<HugeLayout, MkLayout(1, 1)>>, <<HugeLayout, MkLayout(2, 2)>>,
     <<HugeLayout, MkLayout(2, 2), HugeLayout>>}

LayoutInputs ==
    SeqsUpTo(ValidLayouts, MaxFields) \cup {TestZeroTotalSize, TestMixed, TestSingleByte}
        \cup OverflowLayouts

ScalarTypes ==
    {TyVoid, TyPointer, TyFunc} \cup {TyInteger(b) : b \in {1, 8, 16, 32, 64}}
ArraysOf(S) == {TyArray(t, U32(n)) : t \in S, n \in 0..MaxArrayLen}
TuplesOf(S) == {TyTuple(fs) : fs \in SeqsUpTo(S, MaxTypeFields)}

\* Types whose size leaves the i32 range, among them arrays with a length
\* of 2^31, and tuples in which a field of an unsupported width comes after
\* the overflow.
HugeArray == TyArray(TyInteger(8), U32(i32_MAX))
OverflowTypes ==
    {TyArray(TyInteger(32), U32(1073741824)), TyArray(TyInteger(16), U32(1073741824)),
     TyArray(TyInteger(8), U32High(0)), TyArray(TyInteger(32), U32High(0)),
     TyArray(TyVoid, U32High(0)), TyArray(TyInteger(8), U32High(i32_MAX)),
     TyTuple(<<HugeArray, TyInteger(16), HugeArray>>),
     TyTuple(<<HugeArray, TyInteger(8), TyInteger(64)>>),
     TyTuple(<<TyInteger(8), HugeArray, TyInteger(64)>>),
     TyTuple(<<TyInteger(64), HugeArray, TyInteger(8)>>)}

\* Scalars, arrays and tuples of scalars, and arrays and tuples nested once
\* more, and the types above.
TypeInputs ==
    ScalarTypes \cup ArraysOf(ScalarTypes) \cup TuplesOf(ScalarTypes)
      \cup ArraysOf(ArraysOf(ScalarTypes)) \cup ArraysOf(TuplesOf(ScalarTypes))
      \cup {TyTuple(<<a, s>>) : a \in ArraysOf(ScalarTypes) \cup TuplesOf(ScalarTypes),
                                s \in ScalarTypes}
      \cup OverflowTypes


(***************************************************************************)
(* front/scope.rs                                                          *)
(* A Scope is its map `values` and a parent reference.  A chain of scopes  *)
(* is a sequence of maps, outermost first: the parent of chain[i] is       *)
(* chain[i-1] and chain[1] has no parent.  `values` is an IndexMap; its    *)
(* insertion order is not observable through Scope and is not modelled.    *)
(***************************************************************************)

\* Option<T> is None or Some(v).
None == [some |-> FALSE]
Some(v) == [some |-> TRUE, v |-> v]

\* IndexMap::default()
EmptyValues == [id \in {} |-> 0]

\* IndexMap::insert(key, value): the new map, and whether a value was replaced.
IndexMap_insert(values, key, value) ==
    [map |-> [k \in (DOMAIN values) \cup {key} |-> IF k = key THEN value ELSE values[k]],
     replaced |-> key \in DOMAIN values]

\* Result<V> and Result<()> of scope.rs
ScOk(value) == [ok |-> TRUE, value |-> value, err |-> "none"]
ScErr(err) == [ok |-> FALSE, value |-> 0, err |-> err]

\* Scope::default(): no parent, no values.
Scope_default == <<EmptyValues>>

\* Scope::nest: a new empty scope whose parent is the innermost scope.
nest(chain) == Append(chain, EmptyValues)

\* The end of the lifetime of the innermost scope.
drop_scope(chain) == SubSeq(chain, 1, Len(chain) - 1)

\* Mutant of declare: a value that is already there is kept and reported as Ok.
declare_no_error(chain, id, var) ==
    [chain |-> [chain EXCEPT ![Len(chain)] = IndexMap_insert(@, id, var).map],
     res |-> ScOk(0)]

\* Scope::declare on the innermost scope of the chain: the insert happens
\* whether or not the identifier was there.
declare(chain, id, var) ==
    LET ins == IndexMap_insert(chain[Len(chain)], id, var)
    IN  [chain |-> [chain EXCEPT ![Len(chain)] = ins.map],
         res |-> IF ins.replaced THEN ScErr("IdentifierDeclaredTwice") ELSE ScOk(0)]

\* The panic of declare_str: "Id '{id}' already exists in this scope with
\* value {prev}".
ScPanic(id, prev) ==
    [ok |-> FALSE, value |-> prev, err |-> "panic: Id already exists in this scope"]

\* Scope::declare_str on the innermost scope of the chain: the value is
\* inserted, and the call panics if the identifier had a value before.
declare_str(chain, id, var) ==
    LET values == chain[Len(chain)]
        ins == IndexMap_insert(values, id, var)
    IN  [chain |-> [chain EXCEPT ![Len(chain)] = ins.map],
         res |-> IF ins.replaced THEN ScPanic(id, values[id]) ELSE ScOk(0)]

\* Scope::maybe_declare: a placeholder `_` declares nothing.
maybe_declare(chain, id, var) ==
    IF id.kind = "Identifier" THEN declare(chain, id.string, var)
    ELSE [chain |-> chain, res |-> ScOk(0)]

\* Mutant of find: the root scope is consulted before the parent.
RECURSIVE find_root_first(_, _, _, _)
find_root_first(chain, i, root, id) ==
    IF id \in DOMAIN chain[i] THEN ScOk(chain[i][id])
    ELSE IF Len(root) > 0 /\ find_root_first(root, Len(root), <<>>, id).ok
         THEN find_root_first(root, Len(root), <<>>, id)
    ELSE IF i > 1 THEN find_root_first(chain, i - 1, root, id)
    ELSE ScErr("UndeclaredIdentifier")

\* Scope::find called on scope chain[i]; root is the chain that ends in the
\* root scope, or <<>> for None.
RECURSIVE find(_, _, _, _)
find(chain, i, root, id) ==
    IF id \in DOMAIN chain[i] THEN ScOk(chain[i][id])
    ELSE IF i > 1 THEN find(chain, i - 1, root, id)
    ELSE IF Len(root) > 0 THEN find(root, Len(root), <<>>, id)
    ELSE ScErr("UndeclaredIdentifier")

\* Scope::find_immediate_str and Scope::size on the innermost scope.
find_immediate_str(chain, id) ==
    IF id \in DOMAIN chain[Len(chain)] THEN Some(chain[Len(chain)][id]) ELSE None
size(chain) == Cardinality(DOMAIN chain[Len(chain)])

(***************************************************************************)
(* Inputs of the scope specification                                       *)
(***************************************************************************)
MaxDepth == 2
MaxVals == 2

Ids == {"x", "y"}
Vals == 1..MaxVals

\* Every map from some identifiers to values.
ValueMaps == UNION {[D -> Vals] : D \in SUBSET Ids}
SingleMaps == {m \in ValueMaps : Cardinality(DOMAIN m) = 1}

\* The roots handed to find: None, a root without parent, a root under a
\* parent (the parent first).
RootInputs ==
    {<<>>} \cup {<<[id \in {"x"} |-> v]>> : v \in Vals}
           \cup {<<[id \in {"x"} |-> 1], EmptyValues>>,
                 <<[id \in {"x"} |-> 1], [id \in {"x"} |-> MaxVals]>>}

NoCall == [op |-> "none", id |-> "", var |-> 0, root |-> <<>>]

(***************************************************************************)
(* The AST that parser.rs builds and type_func.rs walks.                    *)
(***************************************************************************)

MkPos(line, col) == [line |-> line, col |-> col]
MkSpan(start, end) == [start |-> start, end |-> end]

\* ast::Identifier and ast::MaybeIdentifier
Identifier(span, string) == [kind |-> "Identifier", span |-> span, string |-> string]
Placeholder(span) == [kind |-> "Placeholder", span |-> span]

\* ast::Type
AstType(span, kind) == [span |-> span, kind |-> kind]
AstTypeRef(span, inner) == [span |-> span, kind |-> "Ref", inner |-> inner]

\* ast::Expression { span, kind }; the fields of the variant of
\* ExpressionKind stand next to `kind`, the operator of Unary and Binary
\* (the variant's own field `kind`) is `op`.
ExprLit(span, kind, value) == [span |-> span, kind |-> kind, value |-> value]
ExprPlain(span, kind) == [span |-> span, kind |-> kind]
ExprPath(span, path) == [span |-> span, kind |-> "Path", path |-> path]
ExprUnary(span, op, inner) == [span |-> span, kind |-> "Unary", op |-> op, inner |-> inner]
ExprBinary(span, op, left, right) ==
    [span |-> span, kind |-> "Binary", op |-> op, left |-> left, right |-> right]
ExprTernary(span, condition, then_value, else_value) ==
    [span |-> span, kind |-> "Ternary", condition |-> condition,
     then_value |-> then_value, else_value |-> else_value]
ExprCall(span, target, args) == [span |-> span, kind |-> "Call", target |-> target, args |-> args]
ExprArrayIndex(span, target, index) ==
    [span |-> span, kind |-> "ArrayIndex", target |-> target, index |-> index]
ExprDotIndex(span, target, index) ==
    [span |-> span, kind |-> "DotIndex", target |-> target, index |-> index]
ExprCast(span, value, ty) == [span |-> span, kind |-> "Cast", value |-> value, ty |-> ty]
ExprReturn(span, value) == [span |-> span, kind |-> "Return", value |-> value]

\* ast::DotIndexIndex
DotIndexTuple(span, index) == [kind |-> "Tuple", span |-> span, index |-> index]
DotIndexStruct(id) == [kind |-> "Struct", id |-> id]

\* ast::Path
Path(span, parents, id) == [span |-> span, parents |-> parents, id |-> id]

\* ast::Declaration
Declaration(span, mutable, ty, id, init) ==
    [span |-> span, mutable |-> mutable, ty |-> ty, id |-> id, init |-> init]

\* ast::Assignment, ast::IfStatement, ast::WhileStatement, ast::ForStatement
Assignment(span, left, right) == [span |-> span, left |-> left, right |-> right]
IfStatement(span, cond, then_block, else_block) ==
    [span |-> span, cond |-> cond, then_block |-> then_block, else_block |-> else_block]
WhileStatement(span, cond, body) == [span |-> span, cond |-> cond, body |-> body]
ForStatement(span, index, index_ty, start, end, body) ==
    [span |-> span, index |-> index, index_ty |-> index_ty, start |-> start,
     end |-> end, body |-> body]

\* ast::Statement { span, kind }: `kind` names the variant of StatementKind,
\* `v` is the value the variant holds.
Statement(span, kind, v) == [span |-> span, kind |-> kind, v |-> v]
StmtDeclaration(span, decl) == Statement(span, "Declaration", decl)
StmtBlock(span, block) == Statement(span, "Block", block)
StmtExpression(span, expr) == Statement(span, "Expression", expr)

\* ast::Block
Block(span, statements) == [span |-> span, statements |-> statements]

\* ast::Parameter
Parameter(span, id, ty) == [span |-> span, id |-> id, ty |-> ty]

(***************************************************************************)
(* front/type_func.rs: TypeFuncState.  The type problem it fills           *)
(* (front/type_solver.rs) is a list of type variables and a list of        *)
(* constraints; a TypeVar is an index into the list of variables.          *)
(***************************************************************************)

\* cst types
CstVoid == [kind |-> "Void"]
CstBool == [kind |-> "Bool"]
CstByte == [kind |-> "Byte"]
CstInt == [kind |-> "Int"]
CstPointer(inner) == [kind |-> "Pointer", inner |-> inner]
CstFunction(params, ret) == [kind |-> "Function", params |-> params, ret |-> ret]

\* TypeProblem::default(): the variables of void, bool, byte and int exist.
TypeProblem_default ==
    [vars |-> <<[kind |-> "Known", info |-> CstVoid], [kind |-> "Known", info |-> CstBool],
                [kind |-> "Known", info |-> CstByte], [kind |-> "Known", info |-> CstInt]>>,
     cons |-> <<>>]

\* The TypeFuncState that lower() builds for one function, with the result
\* of the walk so far (res) and the TypeVar last returned (ret).
TypeFuncState_new(ret_ty) ==
    [vars |-> TypeProblem_default.vars, cons |-> TypeProblem_default.cons,
     expr_type_map |-> <<>>, decl_type_map |-> <<>>, ret_ty |-> ret_ty,
     res |-> "Ok", ret |-> 0]

\* TypeProblem::ty_void / ty_bool / ty_byte / ty_int
ty_void(w) == CHOOSE v \in 1..Len(w.vars) : w.vars[v] = [kind |-> "Known", info |-> CstVoid]
ty_bool(w) == CHOOSE v \in 1..Len(w.vars) : w.vars[v] = [kind |-> "Known", info |-> CstBool]
ty_byte(w) == CHOOSE v \in 1..Len(w.vars) : w.vars[v] = [kind |-> "Known", info |-> CstByte]
ty_int(w) == CHOOSE v \in 1..Len(w.vars) : w.vars[v] = [kind |-> "Known", info |-> CstInt]

\* A new type variable; it is the value returned.
new_var(w, info) == [w EXCEPT !.vars = Append(@, info), !.ret = Len(w.vars) + 1]

\* TypeProblem::unknown / unknown_int / unknown_default_void / known
unknown(w, origin) == new_var(w, [kind |-> "Unknown", origin |-> origin])
unknown_int(w, origin) == new_var(w, [kind |-> "UnknownInt", origin |-> origin])
unknown_default_void(w, origin) == new_var(w, [kind |-> "UnknownDefaultVoid", origin |-> origin])
known(w, origin, info) == new_var(w, [kind |-> "Known", origin |-> origin, info |-> info])

\* TypeProblem::equal
equal(w, a, b) == [w EXCEPT !.cons = Append(@, [kind |-> "Equal", a |-> a, b |-> b])]

\* TypeProblem::fully_known: the variable of a type without placeholders.
RECURSIVE fully_known(_, _)
RECURSIVE fully_known_all(_, _, _, _)
fully_known(w, ty) ==
    CASE ty.kind = "Void" -> [w EXCEPT !.ret = ty_void(w)]
      [] ty.kind = "Bool" -> [w EXCEPT !.ret = ty_bool(w)]
      [] ty.kind = "Byte" -> [w EXCEPT !.ret = ty_byte(w)]
      [] ty.kind = "Int" -> [w EXCEPT !.ret = ty_int(w)]
      [] ty.kind = "Pointer" ->
            LET w1 == fully_known(w, ty.inner)
            IN  known(w1, "type", [kind |-> "Pointer", inner |-> w1.ret])
      [] ty.kind = "Function" ->
            LET ps == fully_known_all(w, ty.params, 1, <<>>)
                w1 == fully_known(ps.w, ty.ret)
            IN  known(w1, "type", [kind |-> "Function", params |-> ps.tys, ret |-> w1.ret])

\* fully_known of the types tys[i..], in order.
fully_known_all(w, tys, i, ty_vars) ==
    IF i > Len(tys) THEN [w |-> w, tys |-> ty_vars]
    ELSE LET w1 == fully_known(w, tys[i])
         IN  fully_known_all(w1, tys, i + 1, Append(ty_vars, w1.ret))

\* ItemStore::resolve_type on the built-in types: the cst type, or the error.
RECURSIVE resolve_type(_)
resolve_type(ty) ==
    CASE ty.kind = "Void" -> ScOk(CstVoid)
      [] ty.kind = "Bool" -> ScOk(CstBool)
      [] ty.kind = "Byte" -> ScOk(CstByte)
      [] ty.kind = "Int" -> ScOk(CstInt)
      [] ty.kind = "Ref" ->
            LET inner == resolve_type(ty.inner)
            IN  IF inner.ok THEN ScOk(CstPointer(inner.value)) ELSE inner
      [] OTHER -> ScErr("UndeclaredIdentifier")

\* ScopedItem::Value(ScopedValue::TypeVar(var))
ScopedTypeVar(var) == [kind |-> "TypeVar", var |-> var]

\* The result of a failed step of the walk.
fail(w, err) == [w EXCEPT !.res = err]

\* TypeProblem::add_sub_constraint
add_sub_constraint(w, a, b) ==
    [w EXCEPT !.cons = Append(@, [kind |-> "AddSub", a |-> a, b |-> b])]

\* TypeProblem::tuple_index / struct_index / array_index: a new variable for
\* the result and the constraint that ties it to the target.
tuple_index(w, origin, target, index) ==
    LET w1 == unknown(w, origin)
    IN  [w1 EXCEPT !.cons = Append(@, [kind |-> "TupleIndex", a |-> w1.ret,
                                        target |-> target, index |-> index])]
struct_index(w, origin, target, name) ==
    LET w1 == unknown(w, origin)
    IN  [w1 EXCEPT !.cons = Append(@, [kind |-> "StructIndex", a |-> w1.ret,
                                        target |-> target, name |-> name])]
array_index(w, origin, target) ==
    LET w1 == unknown(w, origin)
    IN  [w1 EXCEPT !.cons = Append(@, [kind |-> "ArrayIndex", a |-> w1.ret,
                                        target |-> target])]

\* The state with v as the value returned.
returning(w, v) == [w EXCEPT !.ret = v]

\* The type variable of `a + b` and `a - b`.
add_sub_result(left_ty, right_ty) == left_ty

\* Mutant of return_constraint: the return posts no constraint.
return_constraint_dropped(w, ret_ty, value_ty) == w

\* The constraint a return posts.
return_constraint(w, ret_ty, value_ty) == equal(w, ret_ty, value_ty)

\* The constraint a cast posts on its operand.
cast_operand_constraint(w, before_ty, before_ty_match) == equal(w, before_ty, before_ty_match)

\* self.visit_expr(..), self.visit_nested_block(..) and
\* type_state.visit_func(..): the calls of the walk all go through the one
\* recursive operator visit, which dispatches on the method called.
RECURSIVE visit(_, _)
self_visit_expr(w, chain, expr) == visit("expr", [w |-> w, chain |-> chain, node |-> expr])
self_visit_func(w, module_scope, func) ==
    visit("func", [w |-> w, chain |-> module_scope, node |-> func])
self_visit_nested_block(w, chain, block) ==
    visit("block", [w |-> w, chain |-> chain, node |-> block])

\* TypeFuncState::visit_expr; chain ends in the scope of the expression.  A
\* state that has failed is returned as it is.
RECURSIVE visit_expr(_, _, _)
RECURSIVE visit_args(_, _, _, _, _)

\* The arguments args[i..] of a call, visited in order up to the first
\* error; tys are the variables of the arguments visited.
visit_args(w, chain, args, i, tys) ==
    IF i > Len(args) \/ w.res # "Ok" THEN [w |-> w, tys |-> tys]
    ELSE LET w1 == self_visit_expr(w, chain, args[i])
         IN  visit_args(w1, chain, args, i + 1, Append(tys, w1.ret))

visit_expr_kind(w, chain, expr) ==
    CASE expr.kind = "Null" ->
            LET w1 == unknown(w, expr)
            IN  known(w1, expr, [kind |-> "Pointer", inner |-> w1.ret])
      [] expr.kind = "BoolLit" -> returning(w, ty_bool(w))
      [] expr.kind = "IntLit" -> unknown_int(w, expr)
      [] expr.kind = "StringLit" ->
            known(w, expr, [kind |-> "Pointer", inner |-> ty_byte(w)])
      [] expr.kind = "Path" ->
            LET item == find(chain, Len(chain), <<>>, expr.path.id.string)
            IN  IF ~item.ok THEN fail(w, item.err)
                ELSE IF item.value.kind = "TypeVar" THEN returning(w, item.value.var)
                ELSE IF item.value.kind \in {"Function", "Const", "Immediate"}
                THEN fully_known(w, item.value.ty)
                ELSE fail(w, "UnexpectedItemType")
      [] expr.kind = "Ternary" ->
            LET w1 == self_visit_expr(w, chain, expr.condition)
                w2 == IF w1.res # "Ok" THEN w1
                      ELSE unknown(equal(w1, w1.ret, ty_bool(w1)), expr)
                w3 == self_visit_expr(w2, chain, expr.then_value)
                w4 == self_visit_expr(w3, chain, expr.else_value)
            IN  IF w4.res # "Ok" THEN w4
                ELSE returning(equal(equal(w4, w2.ret, w3.ret), w2.ret, w4.ret), w2.ret)
      [] expr.kind = "Binary" ->
            LET w1 == self_visit_expr(w, chain, expr.left)
                w2 == self_visit_expr(w1, chain, expr.right)
                w3 == unknown_int(w2, expr)
                w4 == equal(equal(w3, w3.ret, w1.ret), w3.ret, w2.ret)
            IN  IF w2.res # "Ok" THEN w2
                ELSE IF expr.op \in {"Add", "Sub"}
                THEN returning(add_sub_constraint(w2, w1.ret, w2.ret),
                               add_sub_result(w1.ret, w2.ret))
                ELSE IF expr.op \in {"Mul", "Div", "Mod"} THEN w4
                ELSE returning(w4, ty_bool(w4))
      [] expr.kind = "Unary" /\ expr.op = "Ref" ->
            LET w1 == self_visit_expr(w, chain, expr.inner)
            IN  IF w1.res # "Ok" THEN w1
                ELSE known(w1, expr, [kind |-> "Pointer", inner |-> w1.ret])
      [] expr.kind = "Unary" /\ expr.op = "Deref" ->
            LET w1 == self_visit_expr(w, chain, expr.inner)
                w2 == unknown(w1, expr)
                w3 == known(w2, expr, [kind |-> "Pointer", inner |-> w2.ret])
            IN  IF w1.res # "Ok" THEN w1
                ELSE returning(equal(w3, w1.ret, w3.ret), w2.ret)
      [] expr.kind = "Unary" /\ expr.op = "Neg" ->
            LET w1 == unknown_int(w, expr)
                w2 == self_visit_expr(w1, chain, expr.inner)
            IN  IF w2.res # "Ok" THEN w2
                ELSE returning(equal(w2, w1.ret, w2.ret), w1.ret)
      [] expr.kind = "Call" ->
            LET w1 == self_visit_expr(w, chain, expr.target)
                r == visit_args(w1, chain, expr.args, 1, <<>>)
                w2 == unknown(r.w, expr)
                w3 == known(w2, expr, [kind |-> "Function", params |-> r.tys, ret |-> w2.ret])
            IN  IF r.w.res # "Ok" THEN r.w
                ELSE returning(equal(w3, w1.ret, w3.ret), w2.ret)
      [] expr.kind = "DotIndex" ->
            LET w1 == self_visit_expr(w, chain, expr.target)
            IN  IF w1.res # "Ok" THEN w1
                ELSE IF expr.index.kind = "Tuple"
                THEN tuple_index(w1, expr, w1.ret, expr.index.index)
                ELSE struct_index(w1, expr, w1.ret, expr.index.id.string)
      [] expr.kind = "ArrayIndex" ->
            LET w1 == self_visit_expr(w, chain, expr.target)
                w2 == self_visit_expr(w1, chain, expr.index)
            IN  IF w2.res # "Ok" THEN w2
                ELSE array_index(equal(w2, ty_int(w2), w2.ret), expr, w1.ret)
      [] expr.kind = "Cast" ->
            LET w1 == self_visit_expr(w, chain, expr.value)
                w2 == unknown(w1, expr)
                w3 == known(w2, expr, [kind |-> "Pointer", inner |-> w2.ret])
                w4 == cast_operand_constraint(w3, w1.ret, w3.ret)
                after_ty == resolve_type(expr.ty)
            IN  IF w1.res # "Ok" THEN w1
                ELSE IF ~after_ty.ok THEN fail(w4, after_ty.err)
                ELSE fully_known(w4, after_ty.value)
      [] expr.kind = "Return" ->
            LET w1 == IF expr.value.some THEN self_visit_expr(w, chain, expr.value.v)
                      ELSE returning(w, ty_void(w))
                w2 == fully_known(w1, w.ret_ty)
            IN  IF w1.res # "Ok" THEN w1
                ELSE unknown_default_void(return_constraint(w2, w2.ret, w1.ret), expr)
      [] expr.kind \in {"Continue", "Break"} -> unknown_default_void(w, expr)

visit_expr(w, chain, expr) ==
    IF w.res # "Ok" THEN w
    ELSE LET r == visit_expr_kind(w, chain, expr)
         IN  IF r.res # "Ok" THEN r
             ELSE [r EXCEPT !.expr_type_map = Append(@, r.ret)]

\* Scope::maybe_declare as the `?` of the walk sees it.
walk_declare(w, chain, id, var) ==
    LET d == maybe_declare(chain, id, ScopedTypeVar(var))
    IN  [w |-> IF d.res.ok THEN w ELSE fail(w, d.res.err), chain |-> d.chain]

\* TypeFuncState::visit_statement and visit_nested_block.  visit_statement
\* returns the state and the chain, whose innermost scope a declaration fills;
\* visit_nested_block drops the scope it nested.
RECURSIVE visit_statement(_, _, _)
RECURSIVE visit_statements(_, _, _, _)
RECURSIVE visit_nested_block(_, _, _)

visit_statement(w, chain, stmt) ==
    CASE stmt.kind = "Declaration" ->
            LET decl == stmt.v
                resolved == resolve_type(decl.ty.v)
                w1 == IF ~decl.ty.some THEN unknown(w, decl)
                      ELSE IF resolved.ok THEN fully_known(w, resolved.value)
                      ELSE fail(w, resolved.err)
                w2 == IF w1.res # "Ok" THEN w1
                      ELSE IF ~decl.init.some THEN unknown(w1, decl)
                      ELSE self_visit_expr(w1, chain, decl.init.v)
                w3 == IF w2.res # "Ok" THEN w2
                      ELSE [equal(w2, w1.ret, w2.ret)
                              EXCEPT !.decl_type_map = Append(@, w1.ret)]
            IN  IF decl.mutable
                THEN [w |-> fail(w, "panic: everything is mutable for now"), chain |-> chain]
                ELSE IF w3.res # "Ok" THEN [w |-> w3, chain |-> chain]
                ELSE walk_declare(w3, chain, decl.id, w1.ret)
      [] stmt.kind = "Assignment" ->
            LET w1 == self_visit_expr(w, chain, stmt.v.left)
                w2 == self_visit_expr(w1, chain, stmt.v.right)
            IN  [w |-> IF w2.res # "Ok" THEN w2 ELSE equal(w2, w1.ret, w2.ret),
                 chain |-> chain]
      [] stmt.kind = "If" ->
            LET w1 == self_visit_expr(w, chain, stmt.v.cond)
                w2 == IF w1.res # "Ok" THEN w1 ELSE equal(w1, w1.ret, ty_bool(w1))
                w3 == self_visit_nested_block(w2, chain, stmt.v.then_block)
            IN  [w |-> IF stmt.v.else_block.some
                       THEN self_visit_nested_block(w3, chain, stmt.v.else_block.v)
                       ELSE w3,
                 chain |-> chain]
      [] stmt.kind = "While" ->
            LET w1 == self_visit_expr(w, chain, stmt.v.cond)
                w2 == IF w1.res # "Ok" THEN w1 ELSE equal(w1, w1.ret, ty_bool(w1))
            IN  [w |-> self_visit_nested_block(w2, chain, stmt.v.body), chain |-> chain]
      [] stmt.kind = "For" ->
            LET resolved == resolve_type(stmt.v.index_ty.v)
                w1 == IF ~stmt.v.index_ty.some THEN unknown(w, stmt.v)
                      ELSE IF resolved.ok THEN fully_known(w, resolved.value)
                      ELSE fail(w, resolved.err)
                w2 == self_visit_expr(w1, chain, stmt.v.start)
                w3 == self_visit_expr(w2, chain, stmt.v.end)
                w4 == unknown_int(w3, stmt.v)
                w5 == equal(equal(equal(w4, w1.ret, w4.ret), w1.ret, w2.ret), w1.ret, w3.ret)
                r == walk_declare(w5, nest(chain), stmt.v.index, w1.ret)
            IN  [w |-> IF w3.res # "Ok" THEN w3
                       ELSE IF r.w.res # "Ok" THEN r.w
                       ELSE self_visit_nested_block(r.w, r.chain, stmt.v.body),
                 chain |-> chain]
      [] stmt.kind = "Block" ->
            [w |-> self_visit_nested_block(w, chain, stmt.v), chain |-> chain]
      [] stmt.kind = "Expression" ->
            [w |-> self_visit_expr(w, chain, stmt.v), chain |-> chain]

\* try_for_each over statements[i..]: stops at the first error.
visit_statements(w, chain, statements, i) ==
    IF i > Len(statements) \/ w.res # "Ok" THEN w
    ELSE LET r == visit_statement(w, chain, statements[i])
         IN  visit_statements(r.w, r.chain, statements, i + 1)

visit_nested_block(w, chain, block) ==
    IF w.res # "Ok" THEN w
    ELSE visit_statements(w, nest(chain), block.statements, 1)

\* The parameter loop of visit_func over params[i..].
RECURSIVE visit_params(_, _, _, _)
visit_params(w, chain, params, i) ==
    IF i > Len(params) \/ w.res # "Ok" THEN [w |-> w, chain |-> chain]
    ELSE LET ty == resolve_type(params[i].ty)
             w1 == fully_known(w, ty.value)
             r == walk_declare(w1, chain, params[i].id, w1.ret)
         IN  visit_params(r.w, r.chain, params, i + 1)

\* TypeFuncState::visit_func on a function of a module whose scope is
\* module_scope: the parameters are declared in a scope nested in the module
\* scope, the body is walked in a scope nested in that one.
visit_func(w, module_scope, func) ==
    LET r == visit_params(w, nest(<<module_scope>>), func.params, 1)
    IN  IF r.w.res # "Ok" THEN r.w
        ELSE IF ~func.body.some
             THEN fail(r.w, "panic: can only generate code for functions with a body")
        ELSE visit_nested_block(r.w, r.chain, func.body.v)

\* The method fn of TypeFuncState called on the state arg.w.
visit(fn, arg) ==
    CASE fn = "expr" -> visit_expr(arg.w, arg.chain, arg.node)
      [] fn = "block" -> visit_nested_block(arg.w, arg.chain, arg.node)
      [] fn = "func" -> visit_func(arg.w, arg.chain, arg.node)

(***************************************************************************)
(* front/type_solver.rs: TypeProblem::solve, as far as the Equal           *)
(* constraints go: unification of the variables the constraints name and   *)
(* of the children of the types unified.                                   *)
(***************************************************************************)

\* The children that unifying the Known variables a and b unifies.
unify_children(w, a, b) ==
    IF w.vars[a].kind # "Known" \/ w.vars[b].kind # "Known" THEN {}
    ELSE IF w.vars[a].info.kind = "Pointer" /\ w.vars[b].info.kind = "Pointer"
    THEN {<<w.vars[a].info.inner, w.vars[b].info.inner>>}
    ELSE IF /\ w.vars[a].info.kind = "Function" /\ w.vars[b].info.kind = "Function"
            /\ Len(w.vars[a].info.params) = Len(w.vars[b].info.params)
    THEN {<<w.vars[a].info.ret, w.vars[b].info.ret>>}
         \cup {<<w.vars[a].info.params[i], w.vars[b].info.params[i]>> :
                  i \in 1..Len(w.vars[a].info.params)}
    ELSE {}

\* The pairs of variables unified, from the pairs unified so far.
RECURSIVE unify(_, _)
unify(w, pairs) ==
    LET sym == pairs \cup {<<p[2], p[1]>> : p \in pairs}
        trans == {<<x[1][1], x[2][2]>> : x \in {y \in sym \X sym : y[1][2] = y[2][1]}}
        children == UNION {unify_children(w, p[1], p[2]) : p \in sym}
        next == sym \cup trans \cup children
    IN  IF next = pairs THEN pairs ELSE unify(w, next)

\* Two variables of conflicting shapes: Known types of different
\* constructors (an integer of another width included), or an integer
\* literal and a Known type that is no integer.
conflict(w, a, b) ==
    \/ /\ w.vars[a].kind = "Known" /\ w.vars[b].kind = "Known"
       /\ \/ w.vars[a].info.kind # w.vars[b].info.kind
          \/ /\ w.vars[a].info.kind = "Function"
             /\ Len(w.vars[a].info.params) # Len(w.vars[b].info.params)
    \/ /\ w.vars[a].kind = "UnknownInt" /\ w.vars[b].kind = "Known"
       /\ w.vars[b].info.kind \notin {"Byte", "Int"}

\* TypeProblem::solve: "Solved", or the error found.  A variable that is
\* Unknown and unified with no variable of another kind stays free.
solve(w) ==
    LET start == {<<w.cons[i].a, w.cons[i].b>> :
                     i \in {j \in 1..Len(w.cons) : w.cons[j].kind = "Equal"}}
        pairs == unify(w, start) \cup {<<v, v>> : v \in 1..Len(w.vars)}
    IN  IF \E p \in pairs : conflict(w, p[1], p[2]) THEN "TypeMismatch"
        ELSE IF \E v \in 1..Len(w.vars) :
                    \A p \in pairs : p[1] = v => w.vars[p[2]].kind = "Unknown"
        THEN "TypeNotFullyKnown"
        ELSE "Solved"

(***************************************************************************)
(* Inputs of the type walk                                                 *)
(***************************************************************************)
MaxStmts == 2

NoSpan == MkSpan(MkPos(1, 1), MkPos(1, 1))

ExprIntLit(value) == [span |-> NoSpan, kind |-> "IntLit", value |-> value]
ExprBoolLit(value) == [span |-> NoSpan, kind |-> "BoolLit", value |-> value]
ExprPathOf(name) ==
    [span |-> NoSpan, kind |-> "Path",
     path |-> [span |-> NoSpan, parents |-> <<>>, id |-> Identifier(NoSpan, name)]]

\* The type named by a single-segment path.
AstTypePathOf(name) ==
    [span |-> NoSpan, kind |-> "Path",
     path |-> [span |-> NoSpan, parents |-> <<>>, id |-> Identifier(NoSpan, name)]]

\* let <id> = <init>;  and  let mut <id> = <init>;
Let(name, init) ==
    StmtDeclaration(NoSpan, Declaration(NoSpan, FALSE, None, Identifier(NoSpan, name), Some(init)))
LetMut(name, init) ==
    StmtDeclaration(NoSpan, Declaration(NoSpan, TRUE, None, Identifier(NoSpan, name), Some(init)))
LetPlaceholder(init) ==
    StmtDeclaration(NoSpan, Declaration(NoSpan, FALSE, None, Placeholder(NoSpan), Some(init)))
BlockStmt(statements) == StmtBlock(NoSpan, Block(NoSpan, statements))

LetX1 == Let("x", ExprIntLit("1"))
LetX2 == Let("x", ExprIntLit("2"))
LetY1 == Let("y", ExprIntLit("1"))
UseX == StmtExpression(NoSpan, ExprPathOf("x"))

\* Declarations and blocks of declarations.
PlainStmts ==
    {LetX1, LetX2, LetY1, LetPlaceholder(ExprIntLit("1")),
     Let("x", ExprBoolLit(TRUE)),
     BlockStmt(<<>>), BlockStmt(<<LetX2>>), BlockStmt(<<LetX1, LetX2>>),
     BlockStmt(<<LetY1, BlockStmt(<<LetX2, LetY1>>)>>)}

WalkStmts ==
    PlainStmts \cup {UseX, LetMut("x", ExprIntLit("1")), BlockStmt(<<UseX, LetX2>>)}

ParamX == Parameter(NoSpan, Identifier(NoSpan, "x"), AstType(NoSpan, "Int"))

\* The functions walked: no parameter or the parameter x: int, a body of up
\* to MaxStmts statements, no return type.
DeclWalkInputs ==
    {[params |-> ps, ret_ty |-> CstVoid, body |-> Some(Block(NoSpan, b))] :
        ps \in {<<>>, <<ParamX>>}, b \in SeqsUpTo(WalkStmts, MaxStmts)}

\* fun f(n: int, p: &int, b: bool) -> <ret_ty> { <one expression statement> }
ParamN == Parameter(NoSpan, Identifier(NoSpan, "n"), AstType(NoSpan, "Int"))
ParamP == Parameter(NoSpan, Identifier(NoSpan, "p"),
                    AstTypeRef(NoSpan, AstType(NoSpan, "Int")))
ParamB == Parameter(NoSpan, Identifier(NoSpan, "b"), AstType(NoSpan, "Bool"))
TypedParams == <<ParamN, ParamP, ParamB>>

\* The operands of the expressions walked.
Operands ==
    {ExprPathOf("n"), ExprPathOf("p"), ExprPathOf("b"), ExprIntLit("1"),
     ExprBoolLit(TRUE), ExprPlain(NoSpan, "Null")}

\* The types casts name.
CastTypes ==
    {AstType(NoSpan, "Int"), AstType(NoSpan, "Bool"), AstType(NoSpan, "Void"),
     AstTypeRef(NoSpan, AstType(NoSpan, "Int")),
     AstTypeRef(NoSpan, AstType(NoSpan, "Byte"))}

\* The return types of the functions walked.
RetTypes == {CstVoid, CstInt, CstBool, CstPointer(CstInt)}

\* a + b, a - b, a * b, a == b
Arithmetic ==
    {ExprBinary(NoSpan, op, a, b) :
        op \in {"Add", "Sub", "Mul", "Eq"}, a \in Operands, b \in Operands}

\* v as T
Casts == {ExprCast(NoSpan, v, ty) : v \in Operands, ty \in CastTypes}

\* return;  and  return v;
Returns == {ExprReturn(NoSpan, None)} \cup {ExprReturn(NoSpan, Some(v)) : v \in Operands}

\* One expression of every other kind.
OtherExprs ==
    {ExprUnary(NoSpan, "Ref", ExprPathOf("n")),
     ExprUnary(NoSpan, "Deref", ExprPathOf("p")),
     ExprUnary(NoSpan, "Neg", ExprPathOf("n")),
     ExprTernary(NoSpan, ExprPathOf("b"), ExprPathOf("n"), ExprIntLit("1")),
     ExprCall(NoSpan, ExprPathOf("p"), <<ExprPathOf("n"), ExprPathOf("b")>>),
     ExprCall(NoSpan, ExprPathOf("p"), <<ExprPathOf("z"), ExprPathOf("b")>>),
     ExprArrayIndex(NoSpan, ExprPathOf("p"), ExprPathOf("n")),
     ExprDotIndex(NoSpan, ExprPathOf("p"), DotIndexTuple(NoSpan, 0)),
     ExprDotIndex(NoSpan, ExprPathOf("p"), DotIndexStruct(Identifier(NoSpan, "x"))),
     ExprLit(NoSpan, "StringLit", "hi"),
     ExprPlain(NoSpan, "Continue"), ExprPlain(NoSpan, "Break"),
     ExprCast(NoSpan, ExprPathOf("p"), AstTypePathOf("T")),
     ExprBinary(NoSpan, "Add", ExprPathOf("n"), ExprReturn(NoSpan, Some(ExprPathOf("b"))))}

ExprWalkInputs ==
    {[params |-> TypedParams, ret_ty |-> ret_ty,
      body |-> Some(Block(NoSpan, <<StmtExpression(NoSpan, e)>>))] :
        ret_ty \in RetTypes, e \in Arithmetic \cup Casts \cup Returns \cup OtherExprs}

\* for i in 0..n { i; }  and  for i: bool in 0..n { }
ForWalkInputs ==
    {[params |-> TypedParams, ret_ty |-> CstVoid,
      body |-> Some(Block(NoSpan, <<Statement(NoSpan, "For",
                  ForStatement(NoSpan, Identifier(NoSpan, "i"), index_ty, ExprIntLit("0"),
                               ExprPathOf("n"),
                               Block(NoSpan, <<StmtExpression(NoSpan, ExprPathOf("i"))>>)))>>))] :
        index_ty \in {None, Some(AstType(NoSpan, "Bool"))}}

WalkInputs == DeclWalkInputs \cup ExprWalkInputs \cup ForWalkInputs

WalkIdleIn == [params |-> <<>>, ret_ty |-> CstVoid, body |-> None]
WalkIdleOut == [TypeFuncState_new(CstVoid) EXCEPT !.res = "none"]

(***************************************************************************)
(* front/parser.rs: the tokenizer.  Source text (a &str) is held as the    *)
(* sequence of the bytes of its UTF-8 encoding, which is what the offsets  *)
(* and lengths of the code count.  The byte of an ASCII character is that  *)
(* character as a string of length one; a byte from 0x80 up, and the       *)
(* vertical tab, is written as Rust's escape of it, a backslash, `x` and   *)
(* two hexadecimal digits ("\\xC3").  A character (char) is the string of *)
(* its bytes, so U+00E9 is "\\xC3\\xA9", and a String is the string of its *)
(* bytes.  No text of the model holds a backslash of its own.              *)
(***************************************************************************)

\* declare_tokens!: the (literal, TokenType) pairs, in declaration order.
TRIVIAL_TOKEN_LIST ==
    <<[pattern |-> <<"v", "o", "i", "d">>, ty |-> "Void"],
      [pattern |-> <<"b", "o", "o", "l">>, ty |-> "Bool"],
      [pattern |-> <<"b", "y", "t", "e">>, ty |-> "Byte"],
      [pattern |-> <<"i", "n", "t">>, ty |-> "Int"],
      [pattern |-> <<"t", "r", "u", "e">>, ty |-> "True"],
      [pattern |-> <<"f", "a", "l", "s", "e">>, ty |-> "False"],
      [pattern |-> <<"n", "u", "l", "l">>, ty |-> "Null"],
      [pattern |-> <<"e", "x", "t", "e", "r", "n">>, ty |-> "Extern"],
      [pattern |-> <<"u", "s", "e">>, ty |-> "Use"],
      [pattern |-> <<"s", "t", "r", "u", "c", "t">>, ty |-> "Struct"],
      [pattern |-> <<"f", "u", "n">>, ty |-> "Fun"],
      [pattern |-> <<"r", "e", "t", "u", "r", "n">>, ty |-> "Return"],
      [pattern |-> <<"l", "e", "t">>, ty |-> "Let"],
      [pattern |-> <<"c", "o", "n", "s", "t">>, ty |-> "Const"],
      [pattern |-> <<"m", "u", "t">>, ty |-> "Mut"],
      [pattern |-> <<"i", "f">>, ty |-> "If"],
      [pattern |-> <<"e", "l", "s", "e">>, ty |-> "Else"],
      [pattern |-> <<"w", "h", "i", "l", "e">>, ty |-> "While"],
      [pattern |-> <<"f", "o", "r">>, ty |-> "For"],
      [pattern |-> <<"i", "n">>, ty |-> "In"],
      [pattern |-> <<"a", "s">>, ty |-> "As"],
      [pattern |-> <<"b", "r", "e", "a", "k">>, ty |-> "Break"],
      [pattern |-> <<"c", "o", "n", "t", "i", "n", "u", "e">>, ty |-> "Continue"],
      [pattern |-> <<"_">>, ty |-> "Underscore"],
      [pattern |-> <<"-", ">">>, ty |-> "Arrow"],
      [pattern |-> <<".", ".">>, ty |-> "DoubleDot"],
      [pattern |-> <<"!", "=">>, ty |-> "NotEq"],
      [pattern |-> <<"=", "=">>, ty |-> "DoubleEq"],
      [pattern |-> <<">", "=">>, ty |-> "GreaterEqual"],
      [pattern |-> <<">">>, ty |-> "Greater"],
      [pattern |-> <<"<", "=">>, ty |-> "LessEqual"],
      [pattern |-> <<"<">>, ty |-> "Less"],
      [pattern |-> <<"+">>, ty |-> "Plus"],
      [pattern |-> <<"-">>, ty |-> "Minus"],
      [pattern |-> <<"/">>, ty |-> "Slash"],
      [pattern |-> <<"%">>, ty |-> "Percent"],
      [pattern |-> <<".">>, ty |-> "Dot"],
      [pattern |-> <<":", ":">>, ty |-> "DoubleColon"],
      [pattern |-> <<";">>, ty |-> "Semi"],
      [pattern |-> <<":">>, ty |-> "Colon"],
      [pattern |-> <<"?">>, ty |-> "QuestionMark"],
      [pattern |-> <<",">>, ty |-> "Comma"],
      [pattern |-> <<"=">>, ty |-> "Eq"],
      [pattern |-> <<"&">>, ty |-> "Ampersand"],
      [pattern |-> <<"*">>, ty |-> "Star"],
      [pattern |-> <<"(">>, ty |-> "OpenB"],
      [pattern |-> <<")">>, ty |-> "CloseB"],
      [pattern |-> <<"{">>, ty |-> "OpenC"],
      [pattern |-> <<"}">>, ty |-> "CloseC"],
      [pattern |-> <<"[">>, ty |-> "OpenS"],
      [pattern |-> <<"]">>, ty |-> "CloseS"]>>

\* The characters outside ASCII, and the vertical tab, that the texts of the
\* model are made of, by their UTF-8 bytes.
U_000B == "\\x0B"
U_0085 == "\\xC2\\x85"
U_00A0 == "\\xC2\\xA0"
U_00B2 == "\\xC2\\xB2"
U_00D7 == "\\xC3\\x97"
U_00DF == "\\xC3\\x9F"
U_00E9 == "\\xC3\\xA9"
U_03BB == "\\xCE\\xBB"
U_0663 == "\\xD9\\xA3"
U_2003 == "\\xE2\\x80\\x83"
U_4E2D == "\\xE4\\xB8\\xAD"

\* char::is_ascii_digit, char::is_alphabetic (the property Alphabetic),
\* char::is_numeric (the categories Nd, Nl, No), char::is_alphanumeric and
\* char::is_whitespace (the property White_Space, which str::trim_start
\* removes), on the characters modelled: all of ASCII, and of the others
\* the letters U+00DF, U+00E9, U+03BB, U+4E2D, the numbers U+00B2, U+0663,
\* the white space U+000B, U+0085, U+00A0, U+2003 and the sign U+00D7.
AsciiDigits == {"0", "1", "2", "3", "4", "5", "6", "7", "8", "9"}
AsciiLetters ==
    {"a", "b", "c", "d", "e", "f", "g", "h", "i", "j", "k", "l", "m", "n", "o", "p", "q",
     "r", "s", "t", "u", "v", "w", "x", "y", "z", "A", "B", "C", "D", "E", "F", "G", "H",
     "I", "J", "K", "L", "M", "N", "O", "P", "Q", "R", "S", "T", "U", "V", "W", "X", "Y", "Z"}
Alphabetic == AsciiLetters \cup {U_00DF, U_00E9, U_03BB, U_4E2D}
Numeric == AsciiDigits \cup {U_00B2, U_0663}
White_Space == {" ", "\t", "\n", "\r", "\f", U_000B, U_0085, U_00A0, U_2003}
is_ascii_digit(c) == c \in AsciiDigits
is_alphabetic(c) == c \in Alphabetic
is_numeric(c) == c \in Numeric
is_alphanumeric(c) == is_alphabetic(c) \/ is_numeric(c)
is_whitespace(c) == c \in White_Space

\* The first hexadecimal digit of a byte written as an escape.
high_digit(b) == Head(Tail(Tail(b)))

\* A UTF-8 continuation byte (0x80 to 0xBF) goes on a character.
is_continuation(b) == Len(b) = 4 /\ high_digit(b) \in {"8", "9", "A", "B"}

\* core::str::utf8_char_width: the number of bytes of the character that
\* starts with the byte b.
utf8_char_width(b) ==
    IF Len(b) = 1 THEN 1
    ELSE IF high_digit(b) \in {"C", "D"} THEN 2
    ELSE IF high_digit(b) = "E" THEN 3
    ELSE IF high_digit(b) = "F" THEN 4
    ELSE 1

\* The String made of a slice of the text.
RECURSIVE to_owned(_)
to_owned(chars) == IF Len(chars) = 0 THEN "" ELSE Head(chars) \o to_owned(Tail(chars))

\* str::starts_with
starts_with(left, pattern) ==
    Len(left) >= Len(pattern) /\ SubSeq(left, 1, Len(pattern)) = pattern

\* str::find(pattern) searching from byte offset i: the offset of the first
\* match, -1 for None.
str_find_from(left, pattern, i) ==
    LET found == {j \in i..(Len(left) - Len(pattern)) :
                     SubSeq(left, j + 1, j + Len(pattern)) = pattern}
    IN  IF found = {} THEN -1 ELSE CHOOSE j \in found : \A k \in found : j <= k

str_find(left, pattern) == str_find_from(left, pattern, 0)

\* str::chars().next() on a text that is not empty, and the character at
\* the byte offset i.
char_at(left, i) == to_owned(SubSeq(left, i + 1, i + utf8_char_width(left[i + 1])))
chars_next(left) == char_at(left, 0)

\* str::find(|c| !pred(c)).unwrap_or(len) from the byte offset i on: the
\* byte offset of the first character that is not in the set, the length of
\* the text if all are.  The search steps from character to character.
RECURSIVE prefix_len(_, _, _)
prefix_len(left, set, i) ==
    IF i = Len(left) THEN i
    ELSE IF char_at(left, i) \in set
    THEN prefix_len(left, set, i + utf8_char_width(left[i + 1]))
    ELSE i

\* self.left.len() - self.left.trim_start().len(): the number of bytes of
\* the White_Space characters the text starts with.
trim_start_len(left) == prefix_len(left, White_Space, 0)

\* ParseError and the absence of an error.
NoErr == [kind |-> "none"]
ErrChar(pos, char) == [kind |-> "Char", pos |-> pos, char |-> char]
ErrToken(pos, ty, description, allowed) ==
    [kind |-> "Token", pos |-> pos, ty |-> ty, description |-> description,
     allowed |-> allowed]
ErrEof(after, expected) == [kind |-> "Eof", after |-> after, expected |-> expected]

\* Span::empty_at
Span_empty_at(pos) == MkSpan(pos, pos)

\* Token and Token::eof_token
MkToken(ty, string, span) == [ty |-> ty, string |-> string, span |-> span]

\* Mutant of eof_token: the token at the end of input is an empty identifier.
eof_token_as_id(pos) == MkToken("Id", "", Span_empty_at(pos))

eof_token(pos) == MkToken("Eof", "", Span_empty_at(pos))

\* Mutant of skip_count: the column after a newline is counted from 0.
skip_count_col_from_zero(t, count) ==
    LET skipped == SubSeq(t.left, 1, count)
        newlines == {i \in 1..count : skipped[i] = "\n"}
        last_newline == (CHOOSE i \in newlines : \A j \in newlines : j <= i) - 1
    IN  [t EXCEPT !.pos = IF newlines # {}
                          THEN MkPos(t.pos.line + Cardinality(newlines),
                                     count - last_newline - 1)
                          ELSE MkPos(t.pos.line, t.pos.col + count),
                  !.left = SubSeq(t.left, count + 1, Len(t.left))]

\* Tokenizer::skip_count: the position moves over the first `count` bytes
\* of `left`, which leave it.
skip_count(t, count) ==
    LET skipped == SubSeq(t.left, 1, count)
        newlines == {i \in 1..count : skipped[i] = "\n"}
        last_newline == (CHOOSE i \in newlines : \A j \in newlines : j <= i) - 1
    IN  [t EXCEPT !.pos = IF newlines # {}
                          THEN MkPos(t.pos.line + Cardinality(newlines), count - last_newline)
                          ELSE MkPos(t.pos.line, t.pos.col + count),
                  !.left = SubSeq(t.left, count + 1, Len(t.left))]

\* The `?` operator: an error is returned at once, otherwise the
\* computation goes on with the value.
Try(r, F(_)) == IF r.err # NoErr THEN r ELSE F(r)

\* Results of the tokenizer's methods: Result<()> and Result<Token>.
TokUnit(t, err) == [t |-> t, err |-> err]
TokOk(t, token) == [t |-> t, err |-> NoErr, token |-> token]

\* Tokenizer::skip_past: the pattern is searched in all of `left`.
skip_past(t, pattern, allow_eof) ==
    LET i == str_find(t.left, pattern)
    IN  IF i >= 0 THEN TokUnit(skip_count(t, i + Len(pattern)), NoErr)
        ELSE IF ~allow_eof THEN TokUnit(t, ErrEof(t.pos, to_owned(pattern)))
        ELSE TokUnit(skip_count(t, Len(t.left)), NoErr)

\* Tokenizer::skip_whitespace_and_comments, one round of the loop: white
\* space, then a line comment, then a block comment.
skip_line_comment(t) ==
    IF starts_with(t.left, <<"/", "/">>) THEN skip_past(t, <<"\n">>, TRUE)
    ELSE TokUnit(t, NoErr)

skip_block_comment(t) ==
    IF starts_with(t.left, <<"/", "*">>) THEN skip_past(t, <<"*", "/">>, FALSE)
    ELSE TokUnit(t, NoErr)

skip_round(t) ==
    Try(skip_line_comment(skip_count(t, trim_start_len(t.left))),
        LAMBDA r : skip_block_comment(r.t))

\* Tokenizer::skip_whitespace_and_comments: rounds until one skips nothing.
RECURSIVE skip_whitespace_and_comments(_)
skip_whitespace_and_comments(t) ==
    Try(skip_round(t),
        LAMBDA r : IF t.left = r.t.left THEN r ELSE skip_whitespace_and_comments(r.t))

\* Mutant of keyword_type: the first entry whose literal starts the string.
keyword_type_prefix(list, string, i) ==
    LET matching == {j \in i..Len(list) :
                        Len(list[j].pattern) <= Len(string)
                            /\ to_owned(list[j].pattern) = SubSeq(string, 1, Len(list[j].pattern))}
    IN  IF matching = {} THEN "Id"
        ELSE list[CHOOSE j \in matching : \A k \in matching : j <= k].ty

\* The keyword lookup of parse_next: the type of the first entry of the
\* table whose literal is the whole string, Id if there is none.
keyword_type(list, string, i) ==
    LET matching == {j \in i..Len(list) : to_owned(list[j].pattern) = string}
    IN  IF matching = {} THEN "Id"
        ELSE list[CHOOSE j \in matching : \A k \in matching : j <= k].ty

\* Mutant of first_trivial: the last entry of the table that matches.
first_trivial_last_match(list, left, i) ==
    LET matching == {j \in i..Len(list) : starts_with(left, list[j].pattern)}
    IN  IF matching = {} THEN 0 ELSE CHOOSE j \in matching : \A k \in matching : k <= j

\* The trivial-token loop of parse_next: the index of the first entry of the
\* table that `left` starts with, 0 if there is none.
first_trivial(list, left, i) ==
    LET matching == {j \in i..Len(list) : starts_with(left, list[j].pattern)}
    IN  IF matching = {} THEN 0 ELSE CHOOSE j \in matching : \A k \in matching : j <= k

\* Mutant of token_read: the span ends where the string would end.
token_read_string_span(ty, string, start_pos, t1) ==
    TokOk(t1, MkToken(ty, string, MkSpan(start_pos, MkPos(t1.pos.line, start_pos.col + Len(string)))))

\* The token of type ty and text string read between start_pos and the
\* position of the tokenizer t1.
token_read(ty, string, start_pos, t1) == TokOk(t1, MkToken(ty, string, MkSpan(start_pos, t1.pos)))

\* parse_next, number: the digits at the start of `left`.
token_number(t, end) ==
    token_read("IntLit", to_owned(SubSeq(t.left, 1, end)), t.pos, skip_count(t, end))

\* parse_next, identifier or keyword: the `end` bytes at the start of
\* `left`.
token_identifier(t, end) ==
    LET string == to_owned(SubSeq(t.left, 1, end))
    IN  token_read(keyword_type(TRIVIAL_TOKEN_LIST, string, 1), string, t.pos,
                   skip_count(t, end))

\* parse_next, string literal: `found` is the offset of the closing quote in
\* left[1..], -1 if there is none.
token_string_literal(t, found) ==
    IF found < 0 THEN TokUnit(t, ErrEof(t.pos, "\""))
    ELSE token_read("StringLit", to_owned(SubSeq(t.left, 2, 1 + found)), t.pos,
                    skip_count(t, 1 + found + 1))

\* parse_next, trivial token: entry i of the table, none if i = 0.
token_trivial(t, i) ==
    IF i = 0 THEN TokUnit(t, ErrChar(t.pos, chars_next(t.left)))
    ELSE token_read(TRIVIAL_TOKEN_LIST[i].ty, to_owned(TRIVIAL_TOKEN_LIST[i].pattern), t.pos,
                    skip_count(t, Len(TRIVIAL_TOKEN_LIST[i].pattern)))

\* parse_next after skip_whitespace_and_comments.
token_at(t) ==
    IF Len(t.left) = 0 THEN TokOk(t, eof_token(t.pos))
    ELSE IF is_ascii_digit(chars_next(t.left))
    THEN token_number(t, prefix_len(t.left, AsciiDigits, 0))
    ELSE IF is_alphabetic(chars_next(t.left)) \/ chars_next(t.left) = "_"
    THEN token_identifier(t,
             prefix_len(t.left, Alphabetic \cup Numeric \cup {"_", "@"}, 0))
    ELSE IF chars_next(t.left) = "\""
    THEN token_string_literal(t, str_find(SubSeq(t.left, 2, Len(t.left)), <<"\"">>))
    ELSE token_trivial(t, first_trivial(TRIVIAL_TOKEN_LIST, t.left, 1))

\* Tokenizer::parse_next
parse_next(t) == Try(skip_whitespace_and_comments(t), LAMBDA r : token_at(r.t))

\* Tokenizer::advance: the old `curr` is returned, `next` becomes `curr`, the
\* token just read becomes `next`.
advance(t) ==
    Try(parse_next(t),
        LAMBDA r : TokOk([r.t EXCEPT !.curr = t.next, !.next = r.token], t.curr))

\* Tokenizer::new: curr and next are filled by two calls of advance.
Tokenizer_new(left) ==
    Try(advance([left |-> left, pos |-> MkPos(1, 1),
                 curr |-> eof_token(MkPos(1, 1)), next |-> eof_token(MkPos(1, 1))]),
        LAMBDA r : advance(r.t))

(***************************************************************************)
(* front/parser.rs: the parser.  A Parser is a Tokenizer and the end of    *)
(* the token popped last.  Every method returns the parser it leaves       *)
(* behind, with the value (v) or with the error (err).                     *)
(***************************************************************************)
POk(p, v) == [p |-> p, err |-> NoErr, v |-> v]
PErr(p, err) == [p |-> p, err |-> err]

\* A panic (assert, unwrap, expect) ends the call like an error does.
Panic(message) == [kind |-> "panic", message |-> message]

EXPR_START_TOKENS ==
    <<"Return", "Ampersand", "Star", "Minus", "IntLit", "True", "False", "Id", "OpenB">>

TYPE_START_TOKENS ==
    <<"Underscore", "Void", "Bool", "Byte", "Int", "Ampersand", "Id", "OpenB", "OpenS">>

BinOpInfo(level, token, bind_left, op) ==
    [level |-> level, token |-> token, bind_left |-> bind_left, op |-> op]

BINARY_OPERATOR_INFO ==
    <<BinOpInfo(3, "DoubleEq", TRUE, "Eq"),
      BinOpInfo(3, "NotEq", TRUE, "Neq"),
      BinOpInfo(3, "GreaterEqual", TRUE, "Gte"),
      BinOpInfo(3, "Greater", TRUE, "Gt"),
      BinOpInfo(3, "LessEqual", TRUE, "Lte"),
      BinOpInfo(3, "Less", TRUE, "Lt"),
      BinOpInfo(5, "Plus", TRUE, "Add"),
      BinOpInfo(5, "Minus", TRUE, "Sub"),
      BinOpInfo(6, "Slash", TRUE, "Div"),
      BinOpInfo(6, "Star", TRUE, "Mul"),
      BinOpInfo(6, "Percent", TRUE, "Mod")>>

PrefixOpInfo(level, token, op) == [level |-> level, token |-> token, op |-> op]

PREFIX_OPERATOR_INFO ==
    <<PrefixOpInfo(2, "Ampersand", "Ref"),
      PrefixOpInfo(2, "Star", "Deref"),
      PrefixOpInfo(2, "Minus", "Neg")>>

POSTFIX_DEFAULT_LEVEL == 3
POSTFIX_CAST_LEVEL == 1

\* INFO.iter().find(|i| i.token == ty): the index of the entry, 0 for None.
find_info(infos, ty, i) ==
    LET found == {j \in i..Len(infos) : infos[j].token = ty}
    IN  IF found = {} THEN 0 ELSE CHOOSE j \in found : \A k \in found : j <= k

\* ast::Type of the kinds that hold a value
AstTypePath(span, path) == [span |-> span, kind |-> "Path", path |-> path]
AstTypeFunc(span, params, ret) == [span |-> span, kind |-> "Func", params |-> params, ret |-> ret]
AstTypeTuple(span, fields) == [span |-> span, kind |-> "Tuple", fields |-> fields]
AstTypeArray(span, inner, length) ==
    [span |-> span, kind |-> "Array", inner |-> inner, length |-> length]

\* ast::Item: `kind` names the variant, `v` is the value it holds.
Item(kind, v) == [kind |-> kind, v |-> v]
Const(span, id, ty, init) == [span |-> span, id |-> id, ty |-> ty, init |-> init]
UseDecl(span, path) == [span |-> span, path |-> path]
Struct(span, id, fields) == [span |-> span, id |-> id, fields |-> fields]
StructField(span, id, ty) == [span |-> span, id |-> id, ty |-> ty]
Function(span, ext, id, ret_ty, params, body) ==
    [span |-> span, ext |-> ext, id |-> id, ret_ty |-> ret_ty, params |-> params,
     body |-> body]
ModuleContent(items) == [items |-> items]

\* PrefixState, PostFixState and PostFixStateKind
PrefixState(level, start, op) == [level |-> level, start |-> start, op |-> op]
PostFixState(level, end, kind) == [level |-> level, end |-> end, kind |-> kind]
PostFixCall(args) == [kind |-> "Call", args |-> args]
PostFixArrayIndex(index) == [kind |-> "ArrayIndex", index |-> index]
PostFixDotIndex(index) == [kind |-> "DotIndex", index |-> index]
PostFixCast(ty) == [kind |-> "Cast", ty |-> ty]

\* PrefixState::apply
PrefixState_apply(self, inner) ==
    ExprUnary(MkSpan(self.start, inner.span.end), self.op, inner)

\* PostFixState::apply
PostFixState_apply(self, inner) ==
    CASE self.kind.kind = "Call" ->
            ExprCall(MkSpan(inner.span.start, self.end), inner, self.kind.args)
      [] self.kind.kind = "ArrayIndex" ->
            ExprArrayIndex(MkSpan(inner.span.start, self.end), inner, self.kind.index)
      [] self.kind.kind = "DotIndex" ->
            ExprDotIndex(MkSpan(inner.span.start, self.end), inner, self.kind.index)
      [] self.kind.kind = "Cast" ->
            ExprCast(MkSpan(inner.span.start, self.end), inner, self.kind.ty)

\* str::parse::<u32>() of the text of an IntLit token, which is a run of
\* ASCII digits: the value, or -1 where the value does not fit 32 bits
\* (parse returns Err and unwrap panics).  The accumulator is kept as two
\* 16-bit halves so that the 32-bit limit is tested exactly.
digit_value(c) ==
    CHOOSE d \in 0..9 : <<"0", "1", "2", "3", "4", "5", "6", "7", "8", "9">>[d + 1] = c

RECURSIVE decimal_value(_, _, _)
decimal_value(digits, hi, lo) ==
    IF Len(digits) = 0 THEN hi * 65536 + lo
    ELSE IF hi * 10 + ((lo * 10 + digit_value(Head(digits))) \div 65536) > 65535 THEN -1
    ELSE decimal_value(Tail(digits),
                       hi * 10 + ((lo * 10 + digit_value(Head(digits))) \div 65536),
                       (lo * 10 + digit_value(Head(digits))) % 65536)

parse_u32(string) == decimal_value(string, 0, 0)

\* A call of one of the mutually recursive entry points, by name.  Routing
\* these calls through one recursive operator lets the model checker expand
\* each body once instead of once per call site.
RECURSIVE call(_, _)

\* Parser::pop
pop_advanced(p, r) ==
    IF r.err # NoErr THEN PErr([p EXCEPT !.tokenizer = r.t], r.err)
    ELSE POk([tokenizer |-> r.t, last_popped_end |-> r.token.span.end], r.token)

pop(p) == pop_advanced(p, call("advance", p.tokenizer))

\* Parser::peek, Parser::lookahead, Parser::at
peek(p) == p.tokenizer.curr
lookahead(p) == p.tokenizer.next
at(p, ty) == peek(p).ty = ty

\* Parser::unexpected_token
unexpected_token(token, allowed, description) ==
    ErrToken(token.span.start, token.ty, description, allowed)

\* Parser::accept
accept(p, ty) ==
    IF at(p, ty) THEN Try(pop(p), LAMBDA r : POk(r.p, Some(r.v)))
    ELSE POk(p, None)

\* Parser::expect
expect(p, ty, description) ==
    IF at(p, ty) THEN pop(p)
    ELSE PErr(p, unexpected_token(peek(p), <<ty>>, description))

\* Parser::expect_any
expect_any(p, tys, description) ==
    IF \E i \in 1..Len(tys) : tys[i] = peek(p).ty THEN pop(p)
    ELSE PErr(p, unexpected_token(peek(p), tys, description))

\* Mutant of expect_separator: the separator is optional.
accept_separator(closed, sep) ==
    IF sep.some THEN Try(accept(closed.p, sep.v), LAMBDA r : POk(r.p, closed.v)) ELSE closed

\* Parser::list, after an item that `end` does not follow: the separator is
\* expected if the list has one.
expect_separator(closed, sep) ==
    IF sep.some THEN expect(closed.p, sep.v, "separator") ELSE closed

\* Parser::list, the loop: `result` holds the items read so far.  The value
\* is the pair (Span, Vec).
RECURSIVE list_loop(_, _, _, _, _, _, _)
list_loop(p, end, sep, item_fn(_), result, start_pos, end_pos) ==
    Try(accept(p, end), LAMBDA at_end :
        IF at_end.v.some THEN POk(at_end.p, <<MkSpan(start_pos, end_pos), result>>)
        ELSE
    Try(item_fn(at_end.p), LAMBDA it :
    Try(accept(it.p, end), LAMBDA closed :
        IF closed.v.some
        THEN POk(closed.p, <<MkSpan(start_pos, it.p.last_popped_end), Append(result, it.v)>>)
        ELSE
    Try(expect_separator(closed, sep), LAMBDA next :
        list_loop(next.p, end, sep, item_fn, Append(result, it.v), start_pos,
                  it.p.last_popped_end)))))

\* Parser::list
list(p, end, sep, item_fn(_)) ==
    list_loop(p, end, sep, item_fn, <<>>, peek(p).span.start, peek(p).span.start)

\* Vec::last, Vec::pop (the rest)
vec_last(v) == v[Len(v)]
vec_rest(v) == SubSeq(v, 1, Len(v) - 1)

\* Mutant of vec_reverse: the vector is left in its order.
vec_not_reversed(v) == v

\* Vec::reverse
vec_reverse(v) == [i \in 1..Len(v) |-> v[Len(v) + 1 - i]]

\* Result::map(Option::Some), Result::map(Box::new): the value of r as Some.
map_some(r) == Try(r, LAMBDA x : POk(x.p, Some(x.v)))

\* Parser::identifier
identifier(p, description) ==
    Try(expect(p, "Id", description), LAMBDA token :
        POk(token.p, Identifier(token.v.span, token.v.string)))

\* Parser::maybe_identifier
maybe_identifier(p, description) ==
    IF at(p, "Underscore") THEN Try(pop(p), LAMBDA token : POk(token.p, Placeholder(token.v.span)))
    ELSE identifier(p, description)

\* Parser::path, the loop: `id` is the segment read last.
RECURSIVE path_loop(_, _, _)
path_loop(p, parents, id) ==
    Try(accept(p, "DoubleColon"), LAMBDA colons :
        IF colons.v.some
        THEN Try(identifier(colons.p, "path element"), LAMBDA segment :
                 path_loop(segment.p, Append(parents, id), segment.v))
        ELSE POk(colons.p, Path(MkSpan(id.span.start, colons.p.last_popped_end), parents, id)))

\* Parser::path
path(p) == Try(identifier(p, "identifier"), LAMBDA first : path_loop(first.p, <<>>, first.v))

\* Parser::type_decl
RECURSIVE type_decl(_)
type_decl(p) ==
    LET ty == peek(p).ty
        start_pos == peek(p).span.start
    IN  CASE ty \in {"Underscore", "Void", "Bool", "Byte", "Int"} ->
                Try(pop(p), LAMBDA token :
                    POk(token.p, AstType(token.v.span,
                                         IF ty = "Underscore" THEN "Wildcard" ELSE ty)))
          [] ty = "Ampersand" ->
                Try(pop(p), LAMBDA amp :
                Try(call("type_decl", amp.p), LAMBDA inner :
                    POk(inner.p, AstTypeRef(MkSpan(start_pos, inner.v.span.end), inner.v))))
          [] ty = "Id" ->
                Try(path(p), LAMBDA named : POk(named.p, AstTypePath(named.v.span, named.v)))
          [] ty = "OpenB" ->
                Try(pop(p), LAMBDA open :
                Try(list(open.p, "CloseB", Some("Comma"), LAMBDA q : call("type_decl", q)), LAMBDA l :
                Try(accept(l.p, "Arrow"), LAMBDA arrow :
                    IF arrow.v.some
                    THEN Try(call("type_decl", arrow.p), LAMBDA ret :
                             POk(ret.p, AstTypeFunc(MkSpan(start_pos, ret.p.last_popped_end),
                                                    l.v[2], ret.v)))
                    ELSE POk(arrow.p, AstTypeTuple(MkSpan(start_pos, arrow.p.last_popped_end),
                                                   l.v[2])))))
          [] ty = "OpenS" ->
                Try(pop(p), LAMBDA open :
                Try(call("type_decl", open.p), LAMBDA inner :
                Try(expect(inner.p, "Semi", "array type delimiter"), LAMBDA semi :
                Try(expect(semi.p, "IntLit", "array length"), LAMBDA length :
                    IF parse_u32(length.v.string) < 0
                    THEN PErr(length.p, Panic("called Result::unwrap() on an Err value"))
                    ELSE
                Try(expect(length.p, "CloseS", "end of array type"), LAMBDA close :
                    POk(close.p, AstTypeArray(MkSpan(start_pos, close.p.last_popped_end),
                                              inner.v, parse_u32(length.v.string))))))))
          [] OTHER -> PErr(p, unexpected_token(peek(p), TYPE_START_TOKENS, "type declaration"))

\* Parser::maybe_type_decl
maybe_type_decl(p) ==
    Try(accept(p, "Colon"), LAMBDA colon :
        IF colon.v.some THEN map_some(call("type_decl", colon.p)) ELSE POk(colon.p, None))

\* Parser::collect_prefix_ops, the loop.
RECURSIVE collect_prefix_ops(_, _)
collect_prefix_ops(p, result) ==
    LET i == find_info(PREFIX_OPERATOR_INFO, peek(p).ty, 1)
    IN  IF i = 0 THEN POk(p, result)
        ELSE Try(pop(p), LAMBDA token :
                 collect_prefix_ops(token.p,
                     Append(result, PrefixState(PREFIX_OPERATOR_INFO[i].level,
                                                token.v.span.start,
                                                PREFIX_OPERATOR_INFO[i].op))))

\* Mutant of prefix_first: the operator of the lower level is applied first.
prefix_first_lower(prefix_level, postfix_level) == prefix_level < postfix_level

\* Parser::unary: of a prefix and a postfix operator that both wait, the one
\* of the higher level is applied first.
prefix_first(prefix_level, postfix_level) == prefix_level > postfix_level

\* Parser::unary, the loop that applies the collected operators.
RECURSIVE unary_apply(_, _, _, _)
unary_apply(p, prefix_ops, postfix_ops, curr) ==
    IF Len(prefix_ops) > 0 /\ Len(postfix_ops) > 0
    THEN IF vec_last(prefix_ops).level = vec_last(postfix_ops).level
         THEN PErr(p, Panic("assertion failed: (left != right)"))
         ELSE IF prefix_first(vec_last(prefix_ops).level, vec_last(postfix_ops).level)
         THEN unary_apply(p, vec_rest(prefix_ops), postfix_ops,
                          PrefixState_apply(vec_last(prefix_ops), curr))
         ELSE unary_apply(p, prefix_ops, vec_rest(postfix_ops),
                          PostFixState_apply(vec_last(postfix_ops), curr))
    ELSE IF Len(prefix_ops) > 0
    THEN unary_apply(p, vec_rest(prefix_ops), postfix_ops,
                     PrefixState_apply(vec_last(prefix_ops), curr))
    ELSE IF Len(postfix_ops) > 0
    THEN unary_apply(p, prefix_ops, vec_rest(postfix_ops),
                     PostFixState_apply(vec_last(postfix_ops), curr))
    ELSE POk(p, curr)

\* Mutant of next_lower_level: operators of one level associate to the right.
next_lower_level_same(info) == info.level

\* Parser::precedence_climb_binop: info.level + (info.bind_left as u8)
next_lower_level(info) == info.level + (IF info.bind_left THEN 1 ELSE 0)

RECURSIVE expression(_), precedence_climb_binop(_, _), binop_loop(_, _, _), unary(_),
          atomic(_), postfix_op(_), collect_postfix_ops(_, _), ternary_else(_)

\* Mutant of ternary_else: the else value is a binary expression.
ternary_else_binop(p) == precedence_climb_binop(p, 0)

\* Parser::expression: the else value of a ternary is an expression.
ternary_else(p) == call("expression", p)

\* Parser::expression
expression(p) ==
    Try(precedence_climb_binop(p, 0), LAMBDA expr :
    Try(accept(expr.p, "QuestionMark"), LAMBDA question :
        IF ~question.v.some THEN POk(question.p, expr.v)
        ELSE
    Try(call("expression", question.p), LAMBDA then_value :
    Try(expect(then_value.p, "Colon", "continue ternary expression"), LAMBDA colon :
    Try(ternary_else(colon.p), LAMBDA else_value :
        POk(else_value.p,
            ExprTernary(MkSpan(expr.v.span.start, else_value.p.last_popped_end),
                        expr.v, then_value.v, else_value.v)))))))

\* Parser::precedence_climb_binop, the loop: `curr` is the expression built
\* so far.
binop_loop(p, lower_level, curr) ==
    LET i == find_info(BINARY_OPERATOR_INFO, peek(p).ty, 1)
        info == BINARY_OPERATOR_INFO[i]
    IN  IF i = 0 THEN POk(p, curr)
        ELSE IF info.level < lower_level THEN POk(p, curr)
        ELSE Try(pop(p), LAMBDA token :
             Try(precedence_climb_binop(token.p, next_lower_level(info)), LAMBDA right :
                 binop_loop(right.p, lower_level,
                            ExprBinary(MkSpan(curr.span.start, right.v.span.end),
                                       info.op, curr, right.v))))

\* Parser::precedence_climb_binop
precedence_climb_binop(p, lower_level) ==
    Try(unary(p), LAMBDA first : binop_loop(first.p, lower_level, first.v))

\* Parser::unary
unary(p) ==
    Try(collect_prefix_ops(p, <<>>), LAMBDA prefix_ops :
    Try(atomic(prefix_ops.p), LAMBDA curr :
    Try(collect_postfix_ops(curr.p, <<>>), LAMBDA postfix_ops :
        unary_apply(postfix_ops.p, prefix_ops.v, vec_reverse(postfix_ops.v), curr.v))))

\* Parser::collect_postfix_ops, the match: Some((level, kind)) of the
\* postfix operator at the current token, None where the loop breaks.
postfix_op(p) ==
    CASE at(p, "OpenB") ->
            Try(pop(p), LAMBDA open :
            Try(list(open.p, "CloseB", Some("Comma"), LAMBDA q : call("expression", q)), LAMBDA l :
                POk(l.p, Some(<<POSTFIX_DEFAULT_LEVEL, PostFixCall(l.v[2])>>))))
      [] at(p, "OpenS") ->
            Try(pop(p), LAMBDA open :
            Try(call("expression", open.p), LAMBDA index :
            Try(expect(index.p, "CloseS", ""), LAMBDA close :
                POk(close.p, Some(<<POSTFIX_DEFAULT_LEVEL, PostFixArrayIndex(index.v)>>)))))
      [] at(p, "Dot") ->
            Try(pop(p), LAMBDA dot :
            Try(expect_any(dot.p, <<"IntLit", "Id">>, "dot index index"), LAMBDA index :
                IF index.v.ty = "IntLit"
                THEN IF parse_u32(index.v.string) < 0
                     THEN PErr(index.p, Panic("called Result::unwrap() on an Err value"))
                     ELSE POk(index.p,
                              Some(<<POSTFIX_DEFAULT_LEVEL,
                                     PostFixDotIndex(DotIndexTuple(index.v.span,
                                                         parse_u32(index.v.string)))>>))
                ELSE POk(index.p,
                         Some(<<POSTFIX_DEFAULT_LEVEL,
                                PostFixDotIndex(DotIndexStruct(
                                    Identifier(index.v.span, index.v.string)))>>))))
      [] at(p, "As") ->
            Try(pop(p), LAMBDA as :
            Try(call("type_decl", as.p), LAMBDA ty :
                POk(ty.p, Some(<<POSTFIX_CAST_LEVEL, PostFixCast(ty.v)>>))))
      [] OTHER -> POk(p, None)

\* Parser::collect_postfix_ops, the loop.
collect_postfix_ops(p, result) ==
    Try(postfix_op(p), LAMBDA op :
        IF ~op.v.some THEN POk(op.p, result)
        ELSE collect_postfix_ops(op.p,
                 Append(result, PostFixState(op.v.v[1], op.p.last_popped_end, op.v.v[2]))))

\* Parser::atomic
atomic(p) ==
    LET ty == peek(p).ty
        start_pos == peek(p).span.start
    IN  CASE ty = "IntLit" ->
                Try(pop(p), LAMBDA token :
                    POk(token.p, ExprLit(token.v.span, "IntLit", token.v.string)))
          [] ty \in {"True", "False"} ->
                Try(pop(p), LAMBDA token :
                    IF token.v.string \notin {"true", "false"}
                    THEN PErr(token.p, Panic("TTs should parse correctly"))
                    ELSE POk(token.p, ExprLit(token.v.span, "BoolLit", token.v.string = "true")))
          [] ty = "Null" ->
                Try(pop(p), LAMBDA token : POk(token.p, ExprPlain(token.v.span, "Null")))
          [] ty = "StringLit" ->
                Try(pop(p), LAMBDA token :
                    POk(token.p, ExprLit(token.v.span, "StringLit", token.v.string)))
          [] ty = "Id" ->
                Try(path(p), LAMBDA named :
                    POk(named.p, ExprPath(MkSpan(start_pos, named.p.last_popped_end), named.v)))
          [] ty = "OpenB" ->
                Try(pop(p), LAMBDA open :
                Try(call("expression", open.p), LAMBDA expr :
                Try(expect(expr.p, "CloseB", "closing parenthesis"), LAMBDA close :
                    POk(close.p, expr.v))))
          [] ty = "Return" ->
                Try(pop(p), LAMBDA token :
                Try(IF peek(token.p).ty = "Semi" THEN POk(token.p, None)
                    ELSE map_some(call("expression", token.p)), LAMBDA value :
                    POk(value.p, ExprReturn(MkSpan(start_pos, value.p.last_popped_end),
                                            value.v))))
          [] ty \in {"Continue", "Break"} ->
                Try(pop(p), LAMBDA token : POk(token.p, ExprPlain(token.v.span, ty)))
          [] OTHER -> PErr(p, unexpected_token(peek(p), EXPR_START_TOKENS, "expression"))

\* Parser::variable_declaration
variable_declaration(p, ty) ==
    Try(expect(p, ty, "variable declaration"), LAMBDA start :
    Try(accept(start.p, "Mut"), LAMBDA mutable :
    Try(maybe_identifier(mutable.p, "variable name"), LAMBDA id :
    Try(maybe_type_decl(id.p), LAMBDA decl_ty :
    Try(accept(decl_ty.p, "Eq"), LAMBDA eq :
    Try(IF eq.v.some THEN map_some(call("expression", eq.p)) ELSE POk(eq.p, None), LAMBDA init :
        POk(init.p, Declaration(MkSpan(start.v.span.start, init.p.last_popped_end),
                                mutable.v.some, decl_ty.v, id.v, init.v))))))))

RECURSIVE block(_), statement(_), statement_kind(_)

\* Parser::block
block(p) ==
    Try(expect(p, "OpenC", "start of block"), LAMBDA open :
    Try(list(open.p, "CloseC", None, LAMBDA q : call("statement", q)), LAMBDA l :
        POk(l.p, Block(MkSpan(open.v.span.start, l.v[1].end), l.v[2]))))

\* Parser::statement, the match: the variant of StatementKind, the value it
\* holds and need_semi.
statement_kind(p) ==
    LET start_pos == peek(p).span.start
    IN  CASE at(p, "Let") ->
                Try(variable_declaration(p, "Let"), LAMBDA decl :
                    POk(decl.p, <<"Declaration", decl.v, TRUE>>))
          [] at(p, "If") ->
                Try(pop(p), LAMBDA token :
                Try(call("expression", token.p), LAMBDA cond :
                Try(call("block", cond.p), LAMBDA then_block :
                Try(accept(then_block.p, "Else"), LAMBDA else_token :
                Try(IF else_token.v.some THEN map_some(call("block", else_token.p))
                    ELSE POk(else_token.p, None), LAMBDA else_block :
                    POk(else_block.p,
                        <<"If",
                          IfStatement(MkSpan(start_pos, else_block.p.last_popped_end),
                                      cond.v, then_block.v, else_block.v),
                          FALSE>>))))))
          [] at(p, "While") ->
                Try(pop(p), LAMBDA token :
                Try(call("expression", token.p), LAMBDA cond :
                Try(call("block", cond.p), LAMBDA body :
                    POk(body.p,
                        <<"While",
                          WhileStatement(MkSpan(start_pos, body.p.last_popped_end),
                                         cond.v, body.v),
                          FALSE>>))))
          [] at(p, "For") ->
                Try(pop(p), LAMBDA token :
                Try(maybe_identifier(token.p, "index variable"), LAMBDA index :
                Try(maybe_type_decl(index.p), LAMBDA index_ty :
                Try(expect(index_ty.p, "In", "in"), LAMBDA in_token :
                Try(call("expression", in_token.p), LAMBDA start :
                Try(expect(start.p, "DoubleDot", "range separator"), LAMBDA dots :
                Try(call("expression", dots.p), LAMBDA end :
                Try(call("block", end.p), LAMBDA body :
                    POk(body.p,
                        <<"For",
                          ForStatement(MkSpan(start_pos, body.p.last_popped_end),
                                       index.v, index_ty.v, start.v, end.v, body.v),
                          FALSE>>)))))))))
          [] at(p, "OpenC") ->
                Try(call("block", p), LAMBDA b : POk(b.p, <<"Block", b.v, FALSE>>))
          [] OTHER ->
                Try(call("expression", p), LAMBDA left :
                Try(accept(left.p, "Eq"), LAMBDA eq :
                    IF ~eq.v.some THEN POk(eq.p, <<"Expression", left.v, TRUE>>)
                    ELSE
                Try(call("expression", eq.p), LAMBDA right :
                    POk(right.p,
                        <<"Assignment",
                          Assignment(MkSpan(left.v.span.start, right.v.span.end),
                                     left.v, right.v),
                          TRUE>>))))

\* Parser::statement
statement(p) ==
    Try(statement_kind(p), LAMBDA kind :
    Try(IF kind.v[3] THEN expect(kind.p, "Semi", "end of statement") ELSE kind, LAMBDA semi :
        POk(semi.p, Statement(MkSpan(peek(p).span.start, semi.p.last_popped_end),
                              kind.v[1], kind.v[2]))))

\* Parser::parameter
parameter(p) ==
    Try(maybe_identifier(p, "parameter name"), LAMBDA id :
    Try(expect(id.p, "Colon", "parameter type"), LAMBDA colon :
    Try(call("type_decl", colon.p), LAMBDA ty :
        POk(ty.p, Parameter(MkSpan(peek(p).span.start, ty.v.span.end), id.v, ty.v)))))

\* Parser::function
function(p) ==
    Try(accept(p, "Extern"), LAMBDA ext :
    Try(expect(ext.p, "Fun", "function declaration"), LAMBDA fun :
    Try(identifier(fun.p, "function name"), LAMBDA id :
    Try(expect(id.p, "OpenB", "start of parameters"), LAMBDA open :
    Try(list(open.p, "CloseB", Some("Comma"), LAMBDA q : parameter(q)), LAMBDA params :
    Try(accept(params.p, "Arrow"), LAMBDA arrow :
    Try(IF arrow.v.some THEN map_some(call("type_decl", arrow.p)) ELSE POk(arrow.p, None),
        LAMBDA ret_ty :
    Try(IF at(ret_ty.p, "OpenC") THEN map_some(call("block", ret_ty.p))
        ELSE Try(expect(ret_ty.p, "Semi", "end of function declaration"),
                 LAMBDA semi : POk(semi.p, None)),
        LAMBDA body :
        POk(body.p, Function(MkSpan(peek(p).span.start, body.p.last_popped_end),
                             ext.v.some, id.v, ret_ty.v, params.v[2], body.v))))))))))

\* Parser::struct_field
struct_field(p) ==
    Try(identifier(p, "field name"), LAMBDA id :
    Try(expect(id.p, "Colon", "field type"), LAMBDA colon :
    Try(call("type_decl", colon.p), LAMBDA ty :
        POk(ty.p, StructField(MkSpan(id.v.span.start, ty.v.span.end), id.v, ty.v)))))

\* Parser::struct_
struct_(p) ==
    Try(expect(p, "Struct", "start of struct declaration"), LAMBDA start :
    Try(identifier(start.p, "struct name"), LAMBDA id :
    Try(expect(id.p, "OpenC", "start of struct fields"), LAMBDA open :
    Try(list(open.p, "CloseC", Some("Comma"), LAMBDA q : struct_field(q)), LAMBDA fields :
        POk(fields.p, Struct(MkSpan(start.v.span.start, fields.p.last_popped_end),
                             id.v, fields.v[2]))))))

\* Parser::use_decl
use_decl(p) ==
    Try(expect(p, "Use", "start of use decl"), LAMBDA start :
    Try(path(start.p), LAMBDA used :
    Try(expect(used.p, "Semi", "end of item"), LAMBDA semi :
        POk(semi.p, UseDecl(MkSpan(start.v.span.start, used.v.span.end), used.v)))))

\* Parser::const_
const_(p) ==
    Try(expect(p, "Const", "start of const item"), LAMBDA start :
    Try(identifier(start.p, "const name"), LAMBDA id :
    Try(expect(id.p, "Colon", "const type"), LAMBDA colon :
    Try(call("type_decl", colon.p), LAMBDA ty :
    Try(expect(ty.p, "Eq", "initializer"), LAMBDA eq :
    Try(call("expression", eq.p), LAMBDA init :
    Try(expect(init.p, "Semi", "end of item"), LAMBDA semi :
        POk(semi.p, Const(MkSpan(start.v.span.start, semi.p.last_popped_end),
                          id.v, ty.v, init.v)))))))))

\* Parser::item
item(p) ==
    CASE at(p, "Struct") -> Try(struct_(p), LAMBDA it : POk(it.p, Item("Struct", it.v)))
      [] at(p, "Fun") \/ at(p, "Extern") ->
            Try(function(p), LAMBDA it : POk(it.p, Item("Function", it.v)))
      [] at(p, "Const") -> Try(const_(p), LAMBDA it : POk(it.p, Item("Const", it.v)))
      [] at(p, "Use") -> Try(use_decl(p), LAMBDA it : POk(it.p, Item("UseDecl", it.v)))
      [] OTHER ->
            PErr(p, unexpected_token(peek(p), <<"Struct", "Fun", "Extern", "Const", "Use">>,
                                     "start of item"))

\* Parser::module
module(p) ==
    Try(list(p, "Eof", None, LAMBDA q : item(q)), LAMBDA l : POk(l.p, ModuleContent(l.v[2])))

call(fn, arg) ==
    CASE fn = "advance" -> advance(arg)
      [] fn = "type_decl" -> type_decl(arg)
      [] fn = "expression" -> expression(arg)
      [] fn = "block" -> block(arg)
      [] fn = "statement" -> statement(arg)
      [] fn = "module" -> module(arg)

\* A Parser over a tokenizer, as parse_module builds it.
Parser(tokenizer) == [tokenizer |-> tokenizer, last_popped_end |-> MkPos(1, 1)]

\* parse_module after Tokenizer::new returned r.
parse_tokens(r) ==
    IF r.err # NoErr THEN PErr(Parser(r.t), r.err) ELSE call("module", Parser(r.t))

\* parse_module
parse_module(input) == parse_tokens(Tokenizer_new(input))

(***************************************************************************)
(* Tokenizer inputs                                                        *)
(***************************************************************************)
MaxTextLen == 4
MaxLits == 2
MaxEofCalls == 2
MaxWordLen == 4

LexAlphabet == {"/", "*", " ", "\n", "a", "="}

\* The literals of the table that the trivial-token loop can reach: those
\* that do not start an identifier.
PunctEntries ==
    {i \in 1..Len(TRIVIAL_TOKEN_LIST) :
        LET c == TRIVIAL_TOKEN_LIST[i].pattern[1] IN ~is_alphabetic(c) /\ c # "_"}

RECURSIVE concat_literals(_)
concat_literals(is) ==
    IF Len(is) = 0 THEN <<>>
    ELSE TRIVIAL_TOKEN_LIST[Head(is)].pattern \o concat_literals(Tail(is))

\* Texts made of up to MaxLits punctuation literals written without a gap.
PunctTexts == {concat_literals(is) : is \in SeqsUpTo(PunctEntries, MaxLits)}

TestUnterminated ==
    <<"/", "*", " ", "u", "n", "t", "e", "r", "m", "i", "n", "a", "t", "e", "d">>
TestCommentThenToken == <<"/", "*", " ", "*", "/", "\n", "a", "/", "/", "b", "\n", "=", "=">>

\* Words: identifiers, keywords, numbers and string literals.
WordAlphabet == {"i", "n", "t", "_", "@", "1", "\""}

TestInteger == <<"i", "n", "t", "e", "g", "e", "r", " ", "i", "n", "t", "_", " ", "_", "x", " ", "_">>
TestWords ==
    <<"l", "e", "t", " ", "x", "@", "2", " ", "=", " ", "\"", "h", "i", "\"", ";", "\n",
      " ", " ", "c", "o", "n", "t", "i", "n", "u", "e", "d", " ", "4", "2", "a", " ", "\n">>

\* Texts with characters outside ASCII and with the white space that is
\* not a blank, a tab or a line end: up to MaxWideChars characters each.
MaxWideChars == 2

WideAlphabet ==
    {<<"a">>, <<"1">>, <<" ">>, <<"\f">>, <<"\\x0B">>, <<"\\xC2", "\\x85">>,
     <<"\\xC2", "\\xA0">>, <<"\\xC2", "\\xB2">>, <<"\\xC3", "\\x97">>, <<"\\xC3", "\\x9F">>,
     <<"\\xC3", "\\xA9">>, <<"\\xCE", "\\xBB">>, <<"\\xD9", "\\xA3">>,
     <<"\\xE2", "\\x80", "\\x83">>, <<"\\xE4", "\\xB8", "\\xAD">>}

RECURSIVE utf8(_)
utf8(chars) == IF Len(chars) = 0 THEN <<>> ELSE Head(chars) \o utf8(Tail(chars))

WideTexts == {utf8(chars) : chars \in SeqsUpTo(WideAlphabet, MaxWideChars)}

\* x = "<U+00E9>" and a comment with U+4E2D before a name with U+03BB.
TestWide ==
    <<"x", " ", "=", " ", "\"", "\\xC3", "\\xA9", "\"", ";", " ", "/", "*", "\\xE4", "\\xB8",
      "\\xAD", "*", "/", "\\xCE", "\\xBB", "_", "1", "\\xC2", "\\xA0", "=">>

LexInputs ==
    SeqsUpTo(LexAlphabet, MaxTextLen) \cup PunctTexts \cup SeqsUpTo(WordAlphabet, MaxWordLen)
        \cup WideTexts
        \cup {TestUnterminated, TestCommentThenToken, TestInteger, TestWords, TestWide}

LexIdleTokenizer ==
    [left |-> <<>>, pos |-> MkPos(1, 1),
     curr |-> eof_token(MkPos(1, 1)), next |-> eof_token(MkPos(1, 1))]

\* Inputs of skip_count: texts of up to MaxSkipChars characters, among them
\* U+00E9, which UTF-8 encodes as the two bytes C3 A9.
MaxSkipChars == 3

SkipAlphabet == {<<"a">>, <<"\n">>, <<"\\xC3", "\\xA9">>}

SkipTexts == {utf8(chars) : chars \in SeqsUpTo(SkipAlphabet, MaxSkipChars)}

\* str::is_char_boundary: a string is sliced only between two characters.
is_char_boundary(left, index) ==
    \/ index = 0
    \/ index = Len(left)
    \/ index \in 1..(Len(left) - 1) /\ ~is_continuation(left[index + 1])

\* The positions skip_count starts from.
SkipStarts == {MkPos(1, 1), MkPos(2, 3)}

(***************************************************************************)
(* Parser inputs: source texts of modules.  Expressions are read as the    *)
(* initializer of a const item.                                            *)
(***************************************************************************)
MaxBinOps == 2
MaxUnaryOps == 3
MaxTernary == 2

\* The literal of a token type.
PatternOf(ty) ==
    TRIVIAL_TOKEN_LIST[CHOOSE i \in 1..Len(TRIVIAL_TOKEN_LIST) :
                           TRIVIAL_TOKEN_LIST[i].ty = ty].pattern

\* const c: int = <expr>;
ConstText(expr) ==
    <<"c", "o", "n", "s", "t", " ", "c", ":", " ", "i", "n", "t", " ", "=", " ">>
        \o expr \o <<";">>

OperandNames == <<"a", "b", "c", "d", "e">>

\* a op1 b op2 c ...: operand i is OperandNames[i], operator i is entry
\* ops[i] of BINARY_OPERATOR_INFO.
RECURSIVE ChainTextFrom(_, _)
ChainTextFrom(ops, i) ==
    IF i > Len(ops) THEN <<>>
    ELSE <<" ">> \o PatternOf(BINARY_OPERATOR_INFO[ops[i]].token) \o <<" ", OperandNames[i + 1]>>
             \o ChainTextFrom(ops, i + 1)

ChainText(ops) == <<OperandNames[1]>> \o ChainTextFrom(ops, 1)

BinChains == SeqsUpTo(1..Len(BINARY_OPERATOR_INFO), MaxBinOps)

\* Prefix operators, the atom x, postfix operators.
PostfixTexts ==
    <<<<".", "f">>, <<".", "0">>, <<"(", "b", ")">>, <<"[", "b", "]">>,
      <<" ", "a", "s", " ", "T">>>>

RECURSIVE PrefixText(_)
PrefixText(ops) ==
    IF Len(ops) = 0 THEN <<>>
    ELSE PatternOf(PREFIX_OPERATOR_INFO[Head(ops)].token) \o PrefixText(Tail(ops))

RECURSIVE PostfixText(_)
PostfixText(ops) ==
    IF Len(ops) = 0 THEN <<>> ELSE PostfixTexts[Head(ops)] \o PostfixText(Tail(ops))

UnaryText(pre, post) == PrefixText(pre) \o <<"x">> \o PostfixText(post)

\* Pairs of a run of prefix operators and a run of postfix operators, of
\* MaxUnaryOps operators together.
UnaryChains ==
    {c \in SeqsUpTo(1..Len(PREFIX_OPERATOR_INFO), MaxUnaryOps)
               \X SeqsUpTo(1..Len(PostfixTexts), MaxUnaryOps) :
        Len(c[1]) + Len(c[2]) <= MaxUnaryOps}

\* cond1 ? c : cond2 ? c : ... : d * e, where cond is `a` (0) or `a op b`.
CondText(k) == IF k = 0 THEN <<"a">> ELSE ChainText(<<k>>)

RECURSIVE TernaryText(_)
TernaryText(conds) ==
    IF Len(conds) = 0 THEN <<"d", " ", "*", " ", "e">>
    ELSE CondText(Head(conds)) \o <<" ", "?", " ", "c", " ", ":", " ">>
             \o TernaryText(Tail(conds))

\* Conditions of a chain: `a` and one operator of each level; a single
\* ternary takes every operator as its condition.
CondOps ==
    {0} \cup {k \in 1..Len(BINARY_OPERATOR_INFO) :
                 BINARY_OPERATOR_INFO[k].op \in {"Eq", "Add", "Mul"}}

TernaryChains ==
    SeqsUpTo(CondOps, MaxTernary) \cup {<<k>> : k \in 1..Len(BINARY_OPERATOR_INFO)}

\* The expressions the specification names.
TestDerefRefDot == <<"*", " ", "&", " ", "x", ".", "f">>
TestRefDotCast == <<"&", "x", ".", "f", " ", "a", "s", " ", "T">>
TestSubSub == <<"a", " ", "-", " ", "b", " ", "-", " ", "c">>
TestAddMul == <<"a", " ", "+", " ", "b", " ", "*", " ", "c">>
TestMulAdd == <<"a", " ", "*", " ", "b", " ", "+", " ", "c">>
TestEqAdd == <<"a", " ", "=", "=", " ", "b", " ", "+", " ", "c">>
TestTernaryChain ==
    <<"a", " ", "?", " ", "b", " ", ":", " ", "c", " ", "?", " ", "d", " ", ":", " ", "e">>
TestTernaryCond ==
    <<"a", " ", "=", "=", " ", "b", " ", "?", " ", "c", " ", ":", " ", "d">>
TestTernaryThen ==
    <<"a", " ", "?", " ", "b", " ", "?", " ", "c", " ", ":", " ", "d", " ", ":", " ", "e">>

\* Calls x(...) whose arguments are a run of items and separators: item k
\* is OperandNames[k], the closing parenthesis is there or not.
MaxListLen == 4

RECURSIVE ListBody(_, _)
ListBody(seq, k) ==
    IF Len(seq) = 0 THEN <<>>
    ELSE IF Head(seq) = "item" THEN <<" ", OperandNames[k]>> \o ListBody(Tail(seq), k + 1)
    ELSE <<",">> \o ListBody(Tail(seq), k)

ListText(seq, closed) ==
    <<"x", "(">> \o ListBody(seq, 1) \o (IF closed THEN <<")">> ELSE <<>>)

ListChains == SeqsUpTo({"item", "sep"}, MaxListLen) \X BOOLEAN

TestParens ==
    <<"(", "a", ")", ".", "f", " ", "?", "\n", "-", "(", "b", " ", "+", "\n", "c", ")", " ",
      ":", " ", "(", "d", ")">>
TestPath == <<"a", ":", ":", "b", ":", ":", "c">>
TestPathType == <<"x", " ", "a", "s", " ", "m", ":", ":", "T">>

ExprInputs ==
    {ChainText(ops) : ops \in BinChains}
        \cup {UnaryText(c[1], c[2]) : c \in UnaryChains}
        \cup {TernaryText(conds) : conds \in TernaryChains}
        \cup {ListText(c[1], c[2]) : c \in ListChains}
        \cup {TestDerefRefDot, TestRefDotCast, TestSubSub, TestAddMul, TestMulAdd, TestEqAdd,
              TestTernaryChain, TestTernaryCond, TestTernaryThen, TestPath, TestPathType,
              TestParens}

\* Whole modules: items, statements and types of every kind, and texts that
\* do not parse.
TestModuleLet ==
    <<"f", "u", "n", " ", "m", "a", "i", "n", "(", ")", " ", "-", ">", " ", "i", "n", "t",
      " ", "{", "\n", " ", " ", "l", "e", "t", " ", "x", " ", "=", " ", "1", ";", "\n",
      " ", " ", "l", "e", "t", " ", "m", "u", "t", " ", "y", ":", " ", "i", "n", "t", " ",
      "=", " ", "x", ";", "\n", " ", " ", "r", "e", "t", "u", "r", "n", " ", "x", ";",
      "\n", "}", "\n">>
TestModuleIf ==
    <<"f", "u", "n", " ", "f", "(", ")", " ", "{", " ", "i", "f", " ", "x", " ", "=", "=",
      " ", "y", " ", "{", " ", "y", " ", "=", " ", "2", ";", " ", "}", " ", "e", "l", "s",
      "e", " ", "{", " ", "}", " ", "}">>
TestModuleWhile ==
    <<"f", "u", "n", " ", "f", "(", ")", " ", "{", " ", "w", "h", "i", "l", "e", " ", "t",
      "r", "u", "e", " ", "{", " ", "f", "(", "x", ",", " ", "y", ")", ";", " ", "}", " ",
      "}">>
TestModuleBlock ==
    <<"f", "u", "n", " ", "f", "(", ")", " ", "{", " ", "{", " ", "l", "e", "t", " ", "_",
      " ", "=", " ", "n", "u", "l", "l", ";", " ", "}", " ", "r", "e", "t", "u", "r", "n",
      ";", " ", "}">>
TestModuleFor ==
    <<"f", "u", "n", " ", "g", "(", "p", ":", " ", "&", "i", "n", "t", ")", " ", "{", " ",
      "f", "o", "r", " ", "i", ":", " ", "i", "n", "t", " ", "i", "n", " ", "0", ".", ".",
      "p", ".", "0", " ", "{", " ", "c", "o", "n", "t", "i", "n", "u", "e", ";", " ", "}",
      " ", "}">>
TestModuleForBreak ==
    <<"f", "u", "n", " ", "g", "(", ")", " ", "{", " ", "f", "o", "r", " ", "_", " ", "i",
      "n", " ", "a", ".", ".", "b", " ", "{", " ", "b", "r", "e", "a", "k", ";", " ", "}",
      " ", "}">>
TestModuleUse ==
    <<"u", "s", "e", " ", "a", ":", ":", "b", ";", "\n", "c", "o", "n", "s", "t", " ", "s",
      ":", " ", "&", "b", "y", "t", "e", " ", "=", " ", "\"", "h", "i", "\"", ";", "\n">>
TestModuleStruct ==
    <<"s", "t", "r", "u", "c", "t", " ", "S", " ", "{", " ", "a", ":", " ", "i", "n", "t",
      ",", " ", "b", ":", " ", "[", "&", "b", "y", "t", "e", ";", " ", "3", "]", ",", " ",
      "}">>
TestModuleExtern ==
    <<"e", "x", "t", "e", "r", "n", " ", "f", "u", "n", " ", "f", "(", "a", ":", " ", "(",
      "i", "n", "t", ",", " ", "b", "o", "o", "l", ")", " ", "-", ">", " ", "v", "o", "i",
      "d", ",", " ", "_", ":", " ", "S", ")", ";">>
TestModuleBadExpr ==
    <<"c", "o", "n", "s", "t", " ", "c", ":", " ", "i", "n", "t", " ", "=", " ", "1", " ",
      "+", " ", ";">>
TestModuleBadItem ==
    <<"l", "e", "t", " ", "x", " ", "=", " ", "1", ";">>
TestModuleBadStatement ==
    <<"f", "u", "n", " ", "f", "(", ")", " ", "{", " ", "x", " ", "=", " ", "1", " ", "}">>
TestModuleBadIndex ==
    <<"c", "o", "n", "s", "t", " ", "c", ":", " ", "i", "n", "t", " ", "=", " ", "x", ".",
      "4", "2", "9", "4", "9", "6", "7", "2", "9", "6", ";">>

ModuleInputs ==
    {ConstText(expr) : expr \in ExprInputs}
        \cup {TestModuleLet, TestModuleIf, TestModuleWhile, TestModuleBlock,
              TestModuleFor, TestModuleForBreak, TestModuleUse, TestModuleStruct,
              TestModuleExtern, TestModuleBadExpr, TestModuleBadItem, TestModuleBadStatement,
              TestModuleBadIndex, TestUnterminated}

(***************************************************************************)
(* front/lower.rs: lower, map_function, map_constant.  An ir::Program is   *)
(* its arenas of functions, externs, data and blocks, and `main`; a node   *)
(* is named by its arena and its index in it.  cst and ir types are        *)
(* interned, so a type handle is modelled by the type it names.            *)
(***************************************************************************)

\* ir::TypeInfo
IrInt(bits) == [kind |-> "Integer", bits |-> bits]
IrPtr == [kind |-> "Pointer"]
IrFunc(func_ty) == [kind |-> "Func", func_ty |-> func_ty]

\* A node of an arena, and Function::sentinel().
Node(arena, idx) == [arena |-> arena, idx |-> idx]
Function_sentinel == Node("funcs", 0)

\* ir::Program::default(): empty arenas, main not set.
Program_default ==
    [funcs |-> <<>>, exts |-> <<>>, datas |-> <<>>, blocks |-> 0, main |-> Function_sentinel]

\* Program::ty_bool, Program::ty_ptr, Program::type_void
ty_bool_ir == IrInt(1)
ty_ptr_ir == IrPtr
ty_void_ir == [kind |-> "Void"]

\* Program::define_func / define_ext / define_data: the program and the node.
define_func(prog, info) ==
    [prog |-> [prog EXCEPT !.funcs = Append(@, info)], node |-> Node("funcs", Len(prog.funcs) + 1)]
define_ext(prog, info) ==
    [prog |-> [prog EXCEPT !.exts = Append(@, info)], node |-> Node("exts", Len(prog.exts) + 1)]
define_data(prog, info) ==
    [prog |-> [prog EXCEPT !.datas = Append(@, info)], node |-> Node("datas", Len(prog.datas) + 1)]

\* ir::FunctionInfo::new: the type, an empty entry block, no global name, no
\* parameters and no stack slots.
FunctionInfo_new(func_ty, prog) ==
    [prog |-> [prog EXCEPT !.blocks = @ + 1],
     info |-> [ty |-> IrFunc(func_ty), func_ty |-> func_ty, global_name |-> None,
               entry |-> Node("blocks", prog.blocks + 1),
               params |-> <<>>, slots |-> <<>>]]

\* The assignment `func_ir.debug_name = Some(..)` of map_function. The struct
\* FunctionInfo of ir.rs has no such field: lower.rs is written against an
\* ir.rs that has it, so the assignment adds the field to the record that
\* FunctionInfo::new built.
set_debug_name(info, name) ==
    [f \in DOMAIN info \cup {"debug_name"} |->
        IF f = "debug_name" THEN name ELSE info[f]]

\* ir::Value and ir::Const
ValueConst(ty, value) == [kind |-> "Const", ty |-> ty, value |-> value]
ValueFunc(func) == [kind |-> "Func", node |-> func]
ValueExtern(ext) == [kind |-> "Extern", node |-> ext]
ValueData(data) == [kind |-> "Data", node |-> data]

\* LRValue::Right(TypedValue { ty, ir })
Right(ty, ir) == [kind |-> "Right", ty |-> ty, ir |-> ir]

\* MappingTypeStore::map_type and map_type_func on the types without fields.
RECURSIVE map_type(_)
map_type_func(func_ty) ==
    [params |-> [i \in 1..Len(func_ty.params) |-> map_type(func_ty.params[i])],
     ret |-> map_type(func_ty.ret)]

map_type(ty) ==
    CASE ty.kind = "Void" -> ty_ptr_ir
      [] ty.kind = "Bool" -> ty_bool_ir
      [] ty.kind = "Byte" -> IrInt(8)
      [] ty.kind = "Int" -> IrInt(32)
      [] ty.kind = "Pointer" -> ty_ptr_ir
      [] ty.kind = "Function" -> IrFunc(map_type_func(ty))

\* What map_function and map_constant return (res is "Ok", the error or the
\* panic), with the program they leave behind.
MapOk(prog, func, value) == [res |-> "Ok", prog |-> prog, func |-> func, value |-> value]
MapErr(prog, err) == [res |-> err, prog |-> prog, func |-> None, value |-> None]

\* map_function
map_function(prog, decl) ==
    LET ty_func_ir == map_type_func(decl.func_ty)
        ext == define_ext(prog, [name |-> decl.ast.id.string, ty |-> IrFunc(ty_func_ir)])
        fresh == FunctionInfo_new(ty_func_ir, prog)
        named == set_debug_name(fresh.info, Some(decl.ast.id.string))
        func_ir == [named EXCEPT
                        !.global_name = IF decl.ast.ext THEN Some(decl.ast.id.string) ELSE @]
        def == define_func(fresh.prog, func_ir)
    IN  IF ~decl.ast.ext /\ ~decl.ast.body.some THEN MapErr(prog, "MissingFunctionBody")
        ELSE IF ~decl.ast.body.some
        THEN MapOk(ext.prog, None, Right(decl.ty, ValueExtern(ext.node)))
        ELSE MapOk(def.prog, Some(def.node), Right(decl.ty, ValueFunc(def.node)))

\* Mutant of check_type_match: every type matches.
check_type_match_any(expected, actual) == "Ok"

\* check_type_match, check_integer_type, check_ptr_type: "Ok" or the error.
check_type_match(expected, actual) == IF expected # actual THEN "TypeMismatch" ELSE "Ok"
check_integer_type(actual) ==
    IF actual.kind \in {"Byte", "Int"} THEN "Ok" ELSE "ExpectIntegerType"
check_ptr_type(actual) == IF actual.kind = "Pointer" THEN "Ok" ELSE "ExpectPointerType"

\* str::parse::<i32>: an optional sign and at least one digit, every digit
\* decimal, the value within 32 bits.  acc is the value of the digits read.
I32Limit == 214748364
RECURSIVE parse_i32_digits(_, _, _)
parse_i32_digits(digits, negative, acc) ==
    IF Len(digits) = 0 THEN ScOk(acc)
    ELSE IF ~is_ascii_digit(Head(digits)) THEN ScErr("InvalidDigit")
    ELSE LET d == digit_value(Head(digits))
             magnitude == IF negative THEN 0 - acc ELSE acc
             fits == \/ magnitude < I32Limit
                     \/ magnitude = I32Limit /\ d <= (IF negative THEN 8 ELSE 7)
         IN  IF ~fits THEN ScErr(IF negative THEN "NegOverflow" ELSE "PosOverflow")
             ELSE parse_i32_digits(Tail(digits), negative,
                                   IF negative THEN acc * 10 - d ELSE acc * 10 + d)

parse_i32(string) ==
    IF Len(string) = 0 THEN ScErr("Empty")
    ELSE IF Head(string) \in {"+", "-"}
    THEN IF Len(string) = 1 THEN ScErr("InvalidDigit")
         ELSE parse_i32_digits(Tail(string), Head(string) = "-", 0)
    ELSE parse_i32_digits(string, FALSE, 0)

\* str::bytes of text made of lower-case letters, digits and spaces.
DigitChars == <<"0", "1", "2", "3", "4", "5", "6", "7", "8", "9">>
AsciiLower ==
    <<"a", "b", "c", "d", "e", "f", "g", "h", "i", "j", "k", "l", "m",
      "n", "o", "p", "q", "r", "s", "t", "u", "v", "w", "x", "y", "z">>
IndexIn(table, c) == CHOOSE i \in 1..Len(table) : table[i] = c
byte_of(c) ==
    IF c = " " THEN 32
    ELSE IF is_ascii_digit(c) THEN 47 + IndexIn(DigitChars, c)
    ELSE 96 + IndexIn(AsciiLower, c)
RECURSIVE bytes(_)
bytes(string) ==
    IF Len(string) = 0 THEN <<>> ELSE <<byte_of(Head(string))>> \o bytes(Tail(string))

\* map_constant
map_constant(ir_prog, decl) ==
    LET ty == decl.ty
        init == decl.ast.init
        ty_byte_ptr == CstPointer(CstByte)
        parsed == parse_i32(init.value)
        data == define_data(ir_prog, [ty |-> map_type(ty_byte_ptr), inner_ty |-> map_type(CstByte),
                                      bytes |-> bytes(init.value)])
    IN  CASE init.kind = "IntLit" ->
                IF check_integer_type(ty) # "Ok" THEN MapErr(ir_prog, check_integer_type(ty))
                ELSE IF ~parsed.ok THEN MapErr(ir_prog, "InvalidLiteral")
                ELSE MapOk(ir_prog, None, Right(ty, ValueConst(map_type(ty), parsed.value)))
          [] init.kind = "BoolLit" ->
                IF check_type_match(CstBool, ty) # "Ok"
                THEN MapErr(ir_prog, check_type_match(CstBool, ty))
                ELSE MapOk(ir_prog, None,
                           Right(ty, ValueConst(ty_bool_ir, IF init.value THEN 1 ELSE 0)))
          [] init.kind = "StringLit" ->
                IF check_type_match(ty_byte_ptr, ty) # "Ok"
                THEN MapErr(ir_prog, check_type_match(ty_byte_ptr, ty))
                ELSE MapOk(data.prog, None, Right(ty, ValueData(data.node)))
          [] init.kind = "Null" ->
                IF check_ptr_type(ty) # "Ok" THEN MapErr(ir_prog, check_ptr_type(ty))
                ELSE MapOk(ir_prog, None, Right(ty, ValueConst(map_type(ty), 0)))
          [] OTHER ->
                MapErr(ir_prog, "panic: for now only simple literal constants are supported")

\* The first loops of lower: map_function over funcs[i..] and map_constant
\* over consts[i..], up to the first that fails; all holds what was mapped.
RECURSIVE map_functions(_, _, _, _)
map_functions(ir_prog, funcs, i, all) ==
    IF i > Len(funcs) THEN [res |-> "Ok", prog |-> ir_prog, all |-> all]
    ELSE LET r == map_function(ir_prog, funcs[i])
         IN  IF r.res # "Ok" THEN [res |-> r.res, prog |-> r.prog, all |-> all]
             ELSE map_functions(r.prog, funcs, i + 1, Append(all, r))

RECURSIVE map_constants(_, _, _, _)
map_constants(ir_prog, consts, i, all) ==
    IF i > Len(consts) THEN [res |-> "Ok", prog |-> ir_prog, all |-> all]
    ELSE LET r == map_constant(ir_prog, consts[i])
         IN  IF r.res # "Ok" THEN [res |-> r.res, prog |-> r.prog, all |-> all]
             ELSE map_constants(r.prog, consts, i + 1, Append(all, r.value))

\* The scope of the module: its functions and constants by name.
module_scope_of(prog) ==
    [id \in {prog.funcs[i].ast.id.string : i \in 1..Len(prog.funcs)}
            \cup {prog.consts[i].ast.id.string : i \in 1..Len(prog.consts)} |->
        IF \E i \in 1..Len(prog.funcs) : prog.funcs[i].ast.id.string = id
        THEN [kind |-> "Function",
              ty |-> (CHOOSE d \in {prog.funcs[i] : i \in 1..Len(prog.funcs)} :
                          d.ast.id.string = id).ty]
        ELSE [kind |-> "Const",
              ty |-> (CHOOSE d \in {prog.consts[i] : i \in 1..Len(prog.consts)} :
                          d.ast.id.string = id).ty]]

\* LowerFuncState::lower_func with the type_solution that lower hands it.
\* The error of a type problem that has no solution is returned to lower.
\* Otherwise the body is lowered into ir_prog: each `return` ends the current
\* block, and what follows it goes to a block newly allocated.  Of the code
\* emitted the program of the model keeps the blocks allocated.
lower_func(ir_prog, func_decl, type_solution) ==
    LET statements == func_decl.ast.body.v.statements
        returns == {i \in 1..Len(statements) :
                       statements[i].kind = "Expression" /\ statements[i].v.kind = "Return"}
    IN  IF type_solution # "Solved" THEN [res |-> type_solution, prog |-> ir_prog]
        ELSE [res |-> "Ok", prog |-> [ir_prog EXCEPT !.blocks = @ + Cardinality(returns)]]

\* The last loop of lower, over the functions funcs[i..] of the module: type
\* inference and code generation of those that have an ir function.
RECURSIVE codegen(_, _, _, _)
codegen(prog, ir_prog, all_funcs, i) ==
    IF i > Len(prog.funcs) THEN [res |-> "Ok", prog |-> ir_prog]
    ELSE IF ~all_funcs[i].func.some THEN codegen(prog, ir_prog, all_funcs, i + 1)
    ELSE LET func_decl == prog.funcs[i]
             generate(lowered) ==
                 IF lowered.res # "Ok" THEN lowered
                 ELSE codegen(prog, lowered.prog, all_funcs, i + 1)
             check(type_state) ==
                 IF type_state.res # "Ok" THEN [res |-> type_state.res, prog |-> ir_prog]
                 ELSE LET solution == solve(type_state)
                      IN  generate(lower_func(ir_prog, func_decl, solution))
         IN  check(self_visit_func(TypeFuncState_new(func_decl.func_ty.ret),
                                   module_scope_of(prog), func_decl.ast))

\* What lower returns: Ok(program), Err(res) or the panic res.
LowerOk(prog) == [res |-> "Ok", prog |-> Some(prog)]
LowerErr(err) == [res |-> err, prog |-> None]

\* Mutant of set_main: main is left as it is.
set_main_skip(ir_prog, func) == ir_prog

\* ir_prog.main = ..
set_main(ir_prog, func) == [ir_prog EXCEPT !.main = func]

\* lower
lower(prog) ==
    LET funcs == map_functions(Program_default, prog.funcs, 1, <<>>)
        consts == map_constants(funcs.prog, prog.consts, 1, <<>>)
        main == funcs.all[prog.main_func].func
        finish(code) == IF code.res # "Ok" THEN LowerErr(code.res) ELSE LowerOk(code.prog)
    IN  IF funcs.res # "Ok" THEN LowerErr(funcs.res)
        ELSE IF consts.res # "Ok" THEN LowerErr(consts.res)
        ELSE IF ~main.some THEN LowerErr("MainFunctionMustHaveBody")
        ELSE finish(codegen(prog, set_main(consts.prog, main.v), funcs.all, 1))

(***************************************************************************)
(* Inputs of lowering: resolved programs of one module.                    *)
(***************************************************************************)
MaxFuncs == 2

\* cst::FunctionDecl { ty, func_ty, ast } and cst::ConstDecl { ty, ast } as
\* resolution leaves them: the types are the declared types, resolved.
FunctionDecl(ext, name, params, ret_ty, body) ==
    LET func_ty == [params |-> [i \in 1..Len(params) |-> resolve_type(params[i].ty).value],
                    ret |-> IF ret_ty.some THEN resolve_type(ret_ty.v).value ELSE CstVoid]
    IN  [ty |-> CstFunction(func_ty.params, func_ty.ret), func_ty |-> func_ty,
         ast |-> Function(NoSpan, ext, Identifier(NoSpan, name), ret_ty, params, body)]
ConstDecl(name, ty, init) ==
    [ty |-> resolve_type(ty).value, ast |-> Const(NoSpan, Identifier(NoSpan, name), ty, init)]

\* { e; }
BodyOf(e) == Some(Block(NoSpan, <<StmtExpression(NoSpan, e)>>))

\* The declared return types: none, int, bool, &int.
RetAstTypes ==
    {None, Some(AstType(NoSpan, "Int")), Some(AstType(NoSpan, "Bool")),
     Some(AstTypeRef(NoSpan, AstType(NoSpan, "Int")))}

\* fun main(n: int, p: &int, b: bool) [-> R] { return [v]; },
\* fun main() -> int { return true; }, and main declared extern, with and without a body, and without either.
MainDecls ==
    {FunctionDecl(FALSE, "main", TypedParams, ret_ty, BodyOf(r)) :
        ret_ty \in RetAstTypes, r \in Returns}
    \cup {FunctionDecl(FALSE, "main", <<>>, Some(AstType(NoSpan, "Int")),
                       BodyOf(ExprReturn(NoSpan, Some(ExprBoolLit(TRUE))))),
          FunctionDecl(TRUE, "main", <<>>, Some(AstType(NoSpan, "Int")), None),
          FunctionDecl(TRUE, "main", <<>>, Some(AstType(NoSpan, "Int")),
                       BodyOf(ExprReturn(NoSpan, Some(ExprIntLit("1"))))),
          FunctionDecl(FALSE, "main", <<>>, Some(AstType(NoSpan, "Int")), None)}

\* The function f next to main: extern, with a body that names main or x, or
\* with neither body nor extern.
HelperDecls ==
    {FunctionDecl(TRUE, "f", <<ParamN>>, None, None),
     FunctionDecl(FALSE, "f", <<>>, None, BodyOf(ExprPathOf("main"))),
     FunctionDecl(FALSE, "f", <<>>, None, BodyOf(ExprPathOf("x"))),
     FunctionDecl(FALSE, "f", <<>>, None, None)}

\* The constants next to the functions.
ProgramConsts ==
    {<<>>,
     <<ConstDecl("c", AstType(NoSpan, "Int"), ExprIntLit("1"))>>,
     <<ConstDecl("c", AstType(NoSpan, "Bool"), ExprIntLit("1"))>>,
     <<ConstDecl("c", AstTypeRef(NoSpan, AstType(NoSpan, "Byte")), ExprLit(NoSpan, "StringLit", "hi")),
       ConstDecl("d", AstType(NoSpan, "Int"), ExprUnary(NoSpan, "Neg", ExprIntLit("1")))>>}

\* The function lists: one main and up to MaxFuncs - 1 functions f around it.
FuncLists ==
    {fs \in SeqsUpTo(MainDecls \cup HelperDecls, MaxFuncs) :
        /\ Cardinality({i \in 1..Len(fs) : fs[i] \in MainDecls}) = 1
        /\ Cardinality({i \in 1..Len(fs) : fs[i] \in HelperDecls}) <= 1}

\* cst::ResolvedProgram: main_func is the function named main.
LowerInputs ==
    {[funcs |-> fs, consts |-> cs,
      main_func |-> CHOOSE i \in 1..Len(fs) : fs[i] \in MainDecls] :
        fs \in FuncLists, cs \in ProgramConsts}

\* The declared types and the initializers of the constants mapped.
ConstTypes ==
    {AstType(NoSpan, "Void"), AstType(NoSpan, "Bool"), AstType(NoSpan, "Byte"),
     AstType(NoSpan, "Int"), AstTypeRef(NoSpan, AstType(NoSpan, "Byte")),
     AstTypeRef(NoSpan, AstType(NoSpan, "Int")),
     AstTypeRef(NoSpan, AstTypeRef(NoSpan, AstType(NoSpan, "Byte")))}
ConstInits ==
    {ExprIntLit(v) : v \in {"0", "007", "255", "256", "2147483647", "2147483648",
                            "99999999999"}}
    \cup {ExprBoolLit(TRUE), ExprBoolLit(FALSE), ExprPlain(NoSpan, "Null"),
          ExprLit(NoSpan, "StringLit", "hi"), ExprLit(NoSpan, "StringLit", ""),
          ExprLit(NoSpan, "StringLit", "a 1"),
          ExprUnary(NoSpan, "Neg", ExprIntLit("1")),
          ExprBinary(NoSpan, "Add", ExprIntLit("1"), ExprIntLit("2")),
          ExprPathOf("c")}
ConstInputs == {ConstDecl("c", ty, init) : ty \in ConstTypes, init \in ConstInits}

\* The programs map_constant is called on: empty, or holding data already.
ConstPrograms ==
    {Program_default,
     define_data(Program_default, [ty |-> IrPtr, inner_ty |-> IrInt(8), bytes |-> <<104>>]).prog}

\* The types map_type is called on.
MapTypeInputs ==
    {CstVoid, CstBool, CstByte, CstInt, CstPointer(CstVoid), CstPointer(CstByte),
     CstPointer(CstPointer(CstInt)), CstFunction(<<>>, CstVoid),
     CstFunction(<<CstInt, CstPointer(CstByte)>>, CstBool)}

LowerIdleIn == [funcs |-> <<>>, consts |-> <<>>, main_func |-> 0]
LowerIdleOut == [res |-> "none", prog |-> None]


(***************************************************************************)
(* mid/ir.rs: Program::try_visit_blocks.  A Block is a handle into the     *)
(* program's arena, modelled as a number.  A function is its entry and the *)
(* terminator of each of its blocks; a Target is its block, and the values *)
(* a terminator carries (cond, value, phi_values) are left out: the        *)
(* traversal does not read them.                                           *)
(***************************************************************************)
Target(b) == [block |-> b]

Terminator_Jump(target) == [kind |-> "Jump", target |-> target]
Terminator_Branch(true_target, false_target) ==
    [kind |-> "Branch", true_target |-> true_target, false_target |-> false_target]
Terminator_Return == [kind |-> "Return"]
Terminator_Unreachable == [kind |-> "Unreachable"]

\* Result<(), E>: the error of f is named by the block f failed on.
IrOk == [ok |-> TRUE, err |-> 0]
IrErr(e) == [ok |-> FALSE, err |-> e]

for_each_target_true_only(terminator) ==
    CASE terminator.kind = "Jump" -> <<terminator.target>>
      [] terminator.kind = "Branch" -> <<terminator.true_target>>
      [] terminator.kind = "Return" -> <<>>
      [] terminator.kind = "Unreachable" -> <<>>

\* Terminator::for_each_target: the targets f is called on, in call order.
for_each_target(terminator) ==
    CASE terminator.kind = "Jump" -> <<terminator.target>>
      [] terminator.kind = "Branch" -> <<terminator.true_target, terminator.false_target>>
      [] terminator.kind = "Return" -> <<>>
      [] terminator.kind = "Unreachable" -> <<>>

\* Terminator::for_each_successor: the blocks f is called on, in call order.
for_each_successor(terminator) ==
    LET targets == for_each_target(terminator)
    IN  [i \in 1..Len(targets) |-> targets[i].block]

\* Program::get_block(block).terminator
get_terminator(func, b) == func.blocks[b]

\* try_visit_blocks up to its loop: the entry is pushed on the empty
\* blocks_left, blocks_seen is empty and f has not been called.
try_visit_blocks_enter(func) ==
    [op |-> "visiting", left |-> <<func.entry>>, seen |-> {}, calls |-> <<>>, res |-> IrOk]

\* One turn of the loop of try_visit_blocks, in which f returns `result` if it
\* is called.  An empty blocks_left ends the loop with Ok(()); a block seen
\* before is dropped; otherwise the block is marked seen, f is called on it,
\* an error of f is returned at once (`?`) and the successors are pushed at
\* the back of blocks_left.
try_visit_blocks_loop(func, v, result) ==
    IF Len(v.left) = 0 THEN [v EXCEPT !.op = "returned", !.res = IrOk]
    ELSE LET b == Head(v.left)
             popped == [v EXCEPT !.left = Tail(v.left)]
         IN  IF b \in v.seen THEN popped
             ELSE LET called == [popped EXCEPT !.seen = @ \cup {b},
                                               !.calls = Append(@, b)]
                  IN  IF ~result.ok
                      THEN [called EXCEPT !.op = "returned", !.res = result]
                      ELSE [called EXCEPT
                                !.left = @ \o for_each_successor(get_terminator(func, b))]

(***************************************************************************)
(* Traversal inputs: every function of MaxBlocks blocks.                   *)
(***************************************************************************)
MaxBlocks == 3

Blocks == 1..MaxBlocks

Terminators ==
    {Terminator_Jump(Target(b)) : b \in Blocks}
        \cup {Terminator_Branch(Target(bs[1]), Target(bs[2])) : bs \in Blocks \X Blocks}
        \cup {Terminator_Return, Terminator_Unreachable}

IrFuncs == {[entry |-> e, blocks |-> bl] : e \in Blocks, bl \in [Blocks -> Terminators]}

IrIdleFunc == [entry |-> 1, blocks |-> [b \in Blocks |-> Terminator_Unreachable]]

(***************************************************************************)
(* The state of a component that is not running.                           *)
(***************************************************************************)
LayoutIdleIn(checks) ==
    /\ lay_op = "none"
    /\ lay_in = <<>>
    /\ lay_ty = TyVoid
    /\ lay_out = MkTupleLayout(MkLayout(0, 1), <<>>)
    /\ overflow_checks = checks

LayoutIdle == LayoutIdleIn(TRUE)

ScopeIdle ==
    /\ sc_chain = Scope_default
    /\ sc_call = NoCall
    /\ sc_res = ScOk(0)
    /\ tw_in = WalkIdleIn
    /\ tw_out = WalkIdleOut

LexerIdle ==
    /\ lx_op = "none"
    /\ lx_in = <<>>
    /\ lx = LexIdleTokenizer
    /\ lx_err = NoErr
    /\ lx_tok = eof_token(MkPos(1, 1))
    /\ lx_eofs = 0
    /\ lx_from = LexIdleTokenizer
    /\ lx_count = 0

ParserIdle ==
    /\ ps_op = "none"
    /\ ps_in = <<>>
    /\ ps_out = POk(Parser(LexIdleTokenizer), ModuleContent(<<>>))

LowerIdle ==
    /\ lw_op = "none"
    /\ lw_in = LowerIdleIn
    /\ lw_out = LowerIdleOut

IrIdle ==
    /\ ir_op = "none"
    /\ ir_func = IrIdleFunc
    /\ ir_left = <<>>
    /\ ir_seen = {}
    /\ ir_calls = <<>>
    /\ ir_res = IrOk


(***************************************************************************)
(* The layout specification: each step is one call.                        *)
(***************************************************************************)
LayoutInit ==
    /\ \E checks \in BOOLEAN : LayoutIdleIn(checks)
    /\ ScopeIdle /\ LexerIdle /\ ParserIdle /\ LowerIdle /\ IrIdle

\* A call of TupleLayout::from_layouts(fields); a behaviour makes one call.
FromLayouts ==
    \E fields \in LayoutInputs :
        /\ lay_op = "none"
        /\ lay_op' = "from_layouts"
        /\ lay_in' = fields
        /\ lay_ty' = TyVoid
        /\ lay_out' = from_layouts(fields)
        /\ UNCHANGED <<overflow_checks, not_layout>>

\* A call of Layout::for_type(prog, ty).
ForType ==
    \E ty \in TypeInputs :
        /\ lay_op = "none"
        /\ lay_op' = "for_type"
        /\ lay_in' = <<>>
        /\ lay_ty' = ty
        /\ lay_out' = MkTupleLayout(for_type(ty), <<>>)
        /\ UNCHANGED <<overflow_checks, not_layout>>

LayoutNext == FromLayouts \/ ForType

SpecLayout == LayoutInit /\ [][LayoutNext]_vars


(***************************************************************************)
(* The scope specification: a behaviour either works on a chain of scopes  *)
(* (nest, drop, declare, find) or runs one type walk.                      *)
(***************************************************************************)
ScopeInit == LayoutIdle /\ ScopeIdle /\ LexerIdle /\ ParserIdle /\ LowerIdle /\ IrIdle

\* Scope::nest on the innermost scope.
ScNest ==
    /\ tw_out.res = "none"
    /\ Len(sc_chain) < MaxDepth
    /\ sc_chain' = nest(sc_chain)
    /\ sc_call' = [NoCall EXCEPT !.op = "nest"]
    /\ sc_res' = ScOk(0)
    /\ UNCHANGED <<tw_in, tw_out, not_scope>>

\* The innermost scope goes out of scope.
ScDrop ==
    /\ tw_out.res = "none"
    /\ Len(sc_chain) > 1
    /\ sc_chain' = drop_scope(sc_chain)
    /\ sc_call' = [NoCall EXCEPT !.op = "drop"]
    /\ sc_res' = ScOk(0)
    /\ UNCHANGED <<tw_in, tw_out, not_scope>>

\* Scope::declare(id, var) on the innermost scope.
ScDeclare ==
    \E id \in Ids, var \in Vals :
        /\ tw_out.res = "none"
        /\ sc_chain' = declare(sc_chain, id, var).chain
        /\ sc_call' = [NoCall EXCEPT !.op = "declare", !.id = id, !.var = var]
        /\ sc_res' = declare(sc_chain, id, var).res
        /\ UNCHANGED <<tw_in, tw_out, not_scope>>

\* Scope::declare_str(id, var) on the innermost scope.
ScDeclareStr ==
    \E id \in Ids, var \in Vals :
        /\ tw_out.res = "none"
        /\ sc_chain' = declare_str(sc_chain, id, var).chain
        /\ sc_call' = [NoCall EXCEPT !.op = "declare_str", !.id = id, !.var = var]
        /\ sc_res' = declare_str(sc_chain, id, var).res
        /\ UNCHANGED <<tw_in, tw_out, not_scope>>

\* Scope::find(root, id) on the innermost scope.
ScFind ==
    \E id \in Ids, root \in RootInputs :
        /\ tw_out.res = "none"
        /\ sc_call' = [NoCall EXCEPT !.op = "find", !.id = id, !.root = root]
        /\ sc_res' = find(sc_chain, Len(sc_chain), root, id)
        /\ UNCHANGED <<sc_chain, tw_in, tw_out, not_scope>>

\* TypeFuncState::visit_func on a fresh state and an empty module scope.
TypeWalk ==
    \E func \in WalkInputs :
        /\ tw_out.res = "none"
        /\ sc_call = NoCall
        /\ tw_in' = func
        /\ tw_out' = self_visit_func(TypeFuncState_new(func.ret_ty), EmptyValues, func)
        /\ UNCHANGED <<sc_chain, sc_call, sc_res, not_scope>>

ScopeNext == ScNest \/ ScDrop \/ ScDeclare \/ ScDeclareStr \/ ScFind \/ TypeWalk

SpecScope == ScopeInit /\ [][ScopeNext]_vars

(***************************************************************************)
(* The tokenizer specification: a Tokenizer is made over a source text and *)
(* then advanced token by token until it fails, and MaxEofCalls times more *)
(* once Eof is current.                                                    *)
(***************************************************************************)
LexerInit == LayoutIdle /\ ScopeIdle /\ LexerIdle /\ ParserIdle /\ LowerIdle /\ IrIdle

\* The tokenizer after a call that returned r.
LxReturn(op, text, r) ==
    /\ lx_op' = op
    /\ lx_in' = text
    /\ lx' = r.t
    /\ lx_err' = r.err
    /\ lx_tok' = IF op = "advance" /\ r.err = NoErr THEN r.token ELSE lx_tok
    /\ lx_eofs' = IF op = "advance" /\ lx.curr.ty = "Eof" THEN lx_eofs + 1 ELSE lx_eofs
    /\ UNCHANGED <<lx_from, lx_count, not_lexer>>

\* Tokenizer::new(file, left)
LxNew ==
    \E text \in LexInputs :
        /\ lx_op = "none"
        /\ LxReturn("new", text, Tokenizer_new(text))

\* Tokenizer::advance
LxAdvance ==
    /\ lx_op # "none"
    /\ lx_err = NoErr
    /\ lx.curr.ty = "Eof" => lx_eofs < MaxEofCalls
    /\ LxReturn("advance", lx_in, advance(lx))

LexerNext == LxNew \/ LxAdvance

SpecLexer == LexerInit /\ [][LexerNext]_vars

(***************************************************************************)
(* The skip_count specification: each step is one call of skip_count on a  *)
(* Tokenizer that stands at `start` before `left`.                         *)
(***************************************************************************)
SkipInit == LexerInit

LxSkipCount ==
    \E left \in SkipTexts, start \in SkipStarts :
        \E count \in {i \in 0..Len(left) : is_char_boundary(left, i)} :
            LET t == [LexIdleTokenizer EXCEPT !.left = left, !.pos = start]
            IN  /\ lx_op' = "skip_count"
                /\ lx_in' = left
                /\ lx_from' = t
                /\ lx_count' = count
                /\ lx' = skip_count(t, count)
                /\ UNCHANGED <<lx_err, lx_tok, lx_eofs, not_lexer>>

SkipNext == LxSkipCount

SpecSkip == SkipInit /\ [][SkipNext]_vars

(***************************************************************************)
(* The traversal specification: try_visit_blocks is called on a function   *)
(* and runs turn by turn of its loop until it returns.  f is any closure:  *)
(* each call of it returns Ok(()) or an error.                             *)
(***************************************************************************)
IrInit == LayoutIdle /\ ScopeIdle /\ LexerIdle /\ ParserIdle /\ LowerIdle /\ IrIdle

\* The traversal moves to v.
IrMove(v) ==
    /\ ir_op' = v.op
    /\ ir_left' = v.left
    /\ ir_seen' = v.seen
    /\ ir_calls' = v.calls
    /\ ir_res' = v.res
    /\ UNCHANGED not_ir

IrNow == [op |-> ir_op, left |-> ir_left, seen |-> ir_seen, calls |-> ir_calls, res |-> ir_res]

\* Program::try_visit_blocks(func, f) is called.
IrVisit ==
    \E func \in IrFuncs :
        /\ ir_op = "none"
        /\ ir_func' = func
        /\ IrMove(try_visit_blocks_enter(func))

\* A turn of the loop on the block at the front of blocks_left.
IrLoop ==
    /\ ir_op = "visiting"
    /\ Len(ir_left) > 0
    /\ \E result \in {IrOk, IrErr(Head(ir_left))} :
           /\ Head(ir_left) \in ir_seen => result = IrOk
           /\ IrMove(try_visit_blocks_loop(ir_func, IrNow, result))
    /\ UNCHANGED ir_func

\* blocks_left is empty: the loop ends and Ok(()) is returned.
IrReturn ==
    /\ ir_op = "visiting"
    /\ Len(ir_left) = 0
    /\ IrMove(try_visit_blocks_loop(ir_func, IrNow, IrOk))
    /\ UNCHANGED ir_func

IrNext == IrVisit \/ IrLoop \/ IrReturn

SpecIr == IrInit /\ [][IrNext]_vars

\* The call runs on: a turn of the loop that can be taken is taken.
SpecIrLive == SpecIr /\ WF_vars(IrLoop) /\ WF_vars(IrReturn)

(***************************************************************************)
(* The parser specification: each step is one call of parse_module.        *)
(***************************************************************************)
ParserInit == LayoutIdle /\ ScopeIdle /\ LexerIdle /\ ParserIdle /\ LowerIdle /\ IrIdle

\* parse_module(file, input); a behaviour makes one call.
PsParseModule ==
    \E input \in ModuleInputs :
        /\ ps_op = "none"
        /\ ps_op' = "parse_module"
        /\ ps_in' = input
        /\ ps_out' = parse_module(input)
        /\ UNCHANGED not_parser

ParserNext == PsParseModule

SpecParser == ParserInit /\ [][ParserNext]_vars

(***************************************************************************)
(* The lowering specification: each step is one call of lower or of        *)
(* map_constant.                                                           *)
(***************************************************************************)
LowerInit == LayoutIdle /\ ScopeIdle /\ LexerIdle /\ ParserIdle /\ LowerIdle /\ IrIdle

\* lower(prog); a behaviour makes one call.
LwLower ==
    \E prog \in LowerInputs :
        /\ lw_op = "none"
        /\ lw_op' = "lower"
        /\ lw_in' = prog
        /\ lw_out' = lower(prog)
        /\ UNCHANGED not_lower

\* map_constant(store, ir_prog, decl)
LwMapConstant ==
    \E ir_prog \in ConstPrograms, decl \in ConstInputs :
        /\ lw_op = "none"
        /\ lw_op' = "map_constant"
        /\ lw_in' = [ir_prog |-> ir_prog, decl |-> decl]
        /\ lw_out' = map_constant(ir_prog, decl)
        /\ UNCHANGED not_lower

\* MappingTypeStore::map_type(prog, ty)
LwMapType ==
    \E ty \in MapTypeInputs :
        /\ lw_op = "none"
        /\ lw_op' = "map_type"
        /\ lw_in' = ty
        /\ lw_out' = map_type(ty)
        /\ UNCHANGED not_lower

LowerNext == LwLower \/ LwMapConstant \/ LwMapType

SpecLower == LowerInit /\ [][LowerNext]_vars


(***************************************************************************)
(* Claims about back/layout.rs                                             *)
(***************************************************************************)

\* The smallest multiple of a that is >= x, stated without next_multiple.
SmallestMultipleGE(x, a) == CHOOSE m \in x..(x + a - 1) : m % a = 0

\* The largest element of a non-empty set of integers.
MaxOf(S) == CHOOSE m \in S : \A e \in S : e <= m

\* The maximum field alignment of a field list, 1 for no fields.
MaxFieldAlignment(fields) ==
    IF Len(fields) = 0 THEN 1
    ELSE MaxOf({fields[i].alignment : i \in 1..Len(fields)})

\* The i32 arithmetic of from_layouts on fields[i..] does not overflow:
\* neither x + div in next_multiple nor next_offset += field.size.  A field
\* whose layout is a panic ends the loop.
RECURSIVE PackingFits(_, _, _, _)
PackingFits(fields, i, next_offset, alignment) ==
    IF i > Len(fields) THEN next_offset <= i32_MAX - alignment
    ELSE IF fields[i].panic # NoPanic THEN TRUE
    ELSE /\ next_offset <= i32_MAX - fields[i].alignment
         /\ LET aligned == SmallestMultipleGE(next_offset, fields[i].alignment)
            IN  /\ aligned <= i32_MAX - fields[i].size
                /\ PackingFits(fields, i + 1, aligned + fields[i].size,
                               max(alignment, fields[i].alignment))

NoOverflow(fields) == PackingFits(fields, 1, 0, 1)

\* m is the smallest multiple of a that is >= x + y, for y >= 0 and a >= 1;
\* x, y and m are i32 values and the sum is the exact one.
IsSmallestMultipleGE(m, x, y, a) ==
    /\ m % a = 0
    /\ ~add_overflows(x, y)
    /\ x + y <= m
    /\ add_overflows(x + y, a) \/ m < (x + y) + a

\* The packing rule of C1 on the call made.
C1_Packing ==
    LET n == Len(lay_in)
        offs == lay_out.offsets
        align == MaxFieldAlignment(lay_in)
    IN  /\ lay_out.panic = NoPanic
        /\ Len(offs) = n
        /\ n >= 1 => IsSmallestMultipleGE(offs[1], 0, 0, lay_in[1].alignment)
        /\ \A i \in 2..n :
              IsSmallestMultipleGE(offs[i], offs[i - 1], lay_in[i - 1].size,
                                   lay_in[i].alignment)
        /\ lay_out.layout.alignment = align
        /\ IF n = 0 THEN lay_out.layout.size = 0
           ELSE IsSmallestMultipleGE(lay_out.layout.size, offs[n], lay_in[n].size, align)

\* C1: from_layouts packs left to right for every finite sequence of valid
\* field layouts: it returns, offsets[0] is 0 rounded up to align_0,
\* offsets[i] is the smallest multiple of align_i that is >= offsets[i-1] +
\* size_(i-1), the tuple alignment is the maximum field alignment (1 for no
\* fields), the size is the smallest multiple of it >= offsets[last] +
\* size_last (0 for no fields); the two unit-test vectors give offsets
\* [0,2,4,7,12,20] with layout (24,4) and [0,0,0] with (0,4).
C1_AsStated ==
    lay_op = "from_layouts" =>
        /\ C1_Packing
        /\ lay_in = TestMixed =>
              /\ lay_out.offsets = <<0, 2, 4, 7, 12, 20>>
              /\ lay_out.layout = MkLayout(24, 4)
        /\ lay_in = TestZeroTotalSize =>
              /\ lay_out.offsets = <<0, 0, 0>>
              /\ lay_out.layout = MkLayout(0, 4)

\* The properties C2 gives a TupleLayout, on the one returned.
C2_Properties ==
    LET n == Len(lay_in)
        offs == lay_out.offsets
    IN  /\ Len(offs) = n
        /\ \A i \in 1..n : \A j \in i..n : offs[i] <= offs[j]
        /\ \A i \in 1..n : offs[i] % lay_in[i].alignment = 0
        /\ n >= 1 => /\ ~add_overflows(offs[n], lay_in[n].size)
                     /\ lay_out.layout.size >= offs[n] + lay_in[n].size
        /\ \A i \in 1..n : lay_out.layout.alignment >= lay_in[i].alignment
        /\ \/ n = 0 /\ lay_out.layout.alignment = 1
           \/ \E i \in 1..n : lay_out.layout.alignment = lay_in[i].alignment

\* C2: every TupleLayout that from_layouts returns on valid field layouts
\* has non-decreasing offsets, each offset a multiple of its field's
\* alignment, a size >= the last offset plus the last size, and as alignment
\* the maximum field alignment (1 when there are no fields).
C2_AsStated == lay_op = "from_layouts" /\ lay_out.panic = NoPanic => C2_Properties

\* The invariant documented on the fields of Layout.
LayoutValid(l) ==
    /\ l.size >= 0
    /\ l.alignment >= 1
    /\ \E e \in 0..31 : l.alignment = Pow2(e)
    /\ l.size % l.alignment = 0

\* The panics of the four assertions of Layout::new.
LayoutNewPanics ==
    {"size must be >= 0", "alignment must be >= 1",
     "alignment must be a power of two", "size must be a multiple of alignment"}

\* sz * length, for a u32 length, is an i32.
ProductFits(sz, length) ==
    \/ sz = 0
    \/ length.bit31 = 0 /\ (length.low = 0 \/ sz <= i32_MAX \div length.low)

\* sz * length when ProductFits.
Product(sz, length) == IF sz = 0 THEN 0 ELSE sz * length.low

\* The i32 arithmetic of for_type(ty) does not overflow.  In a tuple the
\* fields count up to the first one whose layout is a panic: for_type is
\* not called on the fields after it.
RECURSIVE TypeFits(_)
TypeFits(ty) ==
    CASE ty.kind = "Array" ->
            /\ TypeFits(ty.inner)
            /\ for_type(ty.inner).panic = NoPanic =>
                  ProductFits(for_type(ty.inner).size, ty.length)
      [] ty.kind = "Tuple" ->
            LET layouts == [i \in 1..Len(ty.fields) |-> for_type(ty.fields[i])]
                called == {i \in 1..Len(ty.fields) :
                              \A j \in 1..(i - 1) : layouts[j].panic = NoPanic}
            IN  /\ \A i \in called : TypeFits(ty.fields[i])
                /\ NoOverflow(layouts)
      [] OTHER -> TRUE

\* The i32 arithmetic of the call made does not overflow.
CallFits ==
    /\ lay_op = "from_layouts" => NoOverflow(lay_in)
    /\ lay_op = "for_type" => TypeFits(lay_ty)

\* C3: every Layout value that exists has size >= 0, alignment >= 1 a power
\* of two and size a multiple of the alignment, and no assertion of
\* Layout::new fails when it is called from from_layouts or from for_type on
\* valid field and inner layouts, as long as the i32 arithmetic does not
\* overflow.
C3_LayoutNewNeverFails ==
    CallFits =>
        /\ lay_out.panic \notin LayoutNewPanics \cup OverflowPanics
        /\ lay_out.layout.panic \notin LayoutNewPanics \cup OverflowPanics
        /\ lay_out.panic = NoPanic => LayoutValid(lay_out.layout)
        /\ (lay_op = "for_type" /\ lay_ty.kind = "Array" /\ lay_out.panic = NoPanic) =>
              /\ lay_out.layout.size = Product(for_type(lay_ty.inner).size, lay_ty.length)
              /\ lay_out.layout.alignment = for_type(lay_ty.inner).alignment

\* Without overflow checks an overflow reaches Layout::new: the size of
\* [i16; 2^30] wraps to i32::MIN and the first assertion fails.
C3_OverflowReachesAssertion ==
    /\ lay_op = "for_type"
    /\ lay_ty = TyArray(TyInteger(16), U32(1073741824))
    /\ ~overflow_checks
    /\ lay_out.panic = "size must be >= 0"

\* Witness of C3: for_type has returned the layout of an array of tuples
\* whose tuple needed its size rounded up.
C3_Witness ==
    /\ lay_op = "for_type"
    /\ lay_ty.kind = "Array"
    /\ lay_ty.inner.kind = "Tuple"
    /\ lay_ty.length = U32(2)
    /\ lay_ty.inner.fields = <<TyInteger(32), TyInteger(8)>>
    /\ lay_out.layout = MkLayout(16, 4)

(***************************************************************************)
(* Claims about front/scope.rs and the declarations of the type walk       *)
(***************************************************************************)

\* The identifiers a block declares directly, one entry per declaration.
DeclaredNames(statements) ==
    [i \in {j \in 1..Len(statements) :
              statements[j].kind = "Declaration" /\ statements[j].v.id.kind = "Identifier"}
        |-> statements[i].v.id.string]

\* Some block of the statement list, at any depth, declares an identifier twice.
RECURSIVE HasDuplicate(_)
HasDuplicate(statements) ==
    \/ \E i, j \in DOMAIN DeclaredNames(statements) :
          i # j /\ DeclaredNames(statements)[i] = DeclaredNames(statements)[j]
    \/ \E i \in 1..Len(statements) :
          statements[i].kind = "Block" /\ HasDuplicate(statements[i].v.statements)

\* C4 (the type walk): `let x = 1; let x = 2;` in one block ends the walk
\* with IdentifierDeclaredTwice, `let x = 1; { let x = 2; }` is accepted, a
\* parameter may be shadowed by the body, and a body of plain declarations
\* and blocks is rejected exactly when one of its blocks declares an
\* identifier twice.
C4_WalkShadowing ==
    tw_out.res # "none" =>
        LET body == tw_in.body.v.statements
        IN  /\ body = <<LetX1, LetX2>> => tw_out.res = "IdentifierDeclaredTwice"
            /\ body = <<LetX1, BlockStmt(<<LetX2>>)>> => tw_out.res = "Ok"
            /\ (\A i \in 1..Len(body) : body[i] \in PlainStmts) =>
                  /\ HasDuplicate(body) => tw_out.res = "IdentifierDeclaredTwice"
                  /\ ~HasDuplicate(body) => tw_out.res = "Ok"

\* C4 (Scope::declare): a declare step returns IdentifierDeclaredTwice when
\* the innermost scope already declares the identifier; otherwise it
\* succeeds, also when a parent scope declares it, and the identifier then
\* resolves to the new value (the parent's is shadowed).
C4_DeclareStep ==
    sc_call'.op = "declare" =>
        LET top == sc_chain[Len(sc_chain)]
        IN  /\ sc_call'.id \in DOMAIN top => sc_res' = ScErr("IdentifierDeclaredTwice")
            /\ sc_call'.id \notin DOMAIN top =>
                  /\ sc_res' = ScOk(0)
                  /\ find(sc_chain', Len(sc_chain'), <<>>, sc_call'.id) = ScOk(sc_call'.var)
                  /\ \A i \in 1..(Len(sc_chain) - 1) : sc_chain'[i] = sc_chain[i]

\* C4: declaring twice in one scope is an error, shadowing across nested
\* scopes is allowed, for Scope::declare and for the type walk.
C4_DeclareTwiceOrShadow == []C4_WalkShadowing /\ [][C4_DeclareStep]_vars

\* Witness of C4: the walk has accepted `let x = 1; { let x = 2; }`.
C4_Witness ==
    /\ tw_in.body.some
    /\ tw_in.body.v.statements = <<LetX1, BlockStmt(<<LetX2>>)>>
    /\ tw_out.res = "Ok"
    /\ Len(tw_out.decl_type_map) = 2

\* The scopes of a chain that declare id.
Declaring(chain, id) == {i \in 1..Len(chain) : id \in DOMAIN chain[i]}

\* The binding of id in the nearest scope of the chain, the root chain being
\* looked at only when no scope of the chain declares id.
NearestBinding(chain, root, id) ==
    IF Declaring(chain, id) # {}
    THEN ScOk(chain[MaxOf(Declaring(chain, id))][id])
    ELSE IF Declaring(root, id) # {}
    THEN ScOk(root[MaxOf(Declaring(root, id))][id])
    ELSE ScErr("UndeclaredIdentifier")

\* C5: find(root, id) returns the binding of id in the nearest scope of the
\* chain self, parent, ...; the root (with its own ancestors) is consulted
\* only if no scope of the chain declares id; UndeclaredIdentifier is
\* returned exactly when neither the chain nor the root chain declares id.
C5_FindNearestThenRoot ==
    sc_call.op = "find" =>
        /\ sc_res = NearestBinding(sc_chain, sc_call.root, sc_call.id)
        /\ sc_res = ScErr("UndeclaredIdentifier") <=>
              (Declaring(sc_chain, sc_call.id) = {} /\ Declaring(sc_call.root, sc_call.id) = {})

\* Witness of C5: find returned the parent's binding although the root
\* declares the identifier too, with another value.
C5_Witness ==
    /\ sc_call.op = "find"
    /\ Len(sc_chain) = 2
    /\ sc_call.id \notin DOMAIN sc_chain[2]
    /\ sc_call.id \in DOMAIN sc_chain[1]
    /\ Len(sc_call.root) = 2
    /\ sc_call.id \in DOMAIN sc_call.root[2]
    /\ sc_call.root[2][sc_call.id] # sc_chain[1][sc_call.id]
    /\ sc_res = ScOk(sc_chain[1][sc_call.id])

(***************************************************************************)
(* C9, C10: the tokenizer                                                  *)
(***************************************************************************)
\* The position after one byte of the text, as skip_count moves it.
StepPos(pos, c) == IF c = "\n" THEN MkPos(pos.line + 1, 1) ELSE MkPos(pos.line, pos.col + 1)

RECURSIVE StepPosOver(_, _)
StepPosOver(pos, chars) ==
    IF Len(chars) = 0 THEN pos ELSE StepPosOver(StepPos(pos, Head(chars)), Tail(chars))

\* A block comment opener whose terminator, if any, does not lie after it.
AtUnterminatedComment(left) ==
    /\ starts_with(left, <<"/", "*">>)
    /\ ~\E i \in 3..Len(left) - 1 : left[i] = "*" /\ left[i + 1] = "/"

\* The byte offsets of a text at which a character starts or the text ends,
\* the next one after the offset i, and the character that starts at i.
Boundaries(text) == {i \in 0..Len(text) : is_char_boundary(text, i)}

NextBoundary(text, i) ==
    CHOOSE j \in Boundaries(text) : j > i /\ \A k \in Boundaries(text) : k > i => j <= k

CharFrom(text, i) == to_owned(SubSeq(text, i + 1, NextBoundary(text, i)))

\* The number of bytes of the trivia (a white space character, a line
\* comment, a block comment closed after its opener) the text starts with,
\* 0 if it starts with none.
LeadingTrivia(left) ==
    IF Len(left) = 0 THEN 0
    ELSE IF is_whitespace(CharFrom(left, 0)) THEN NextBoundary(left, 0)
    ELSE IF starts_with(left, <<"/", "/">>)
    THEN IF \E i \in 1..Len(left) : left[i] = "\n"
         THEN CHOOSE i \in 1..Len(left) :
                  left[i] = "\n" /\ \A j \in 1..i - 1 : left[j] # "\n"
         ELSE Len(left)
    ELSE IF starts_with(left, <<"/", "*">>) /\ ~AtUnterminatedComment(left)
    THEN 1 + CHOOSE i \in 3..Len(left) - 1 :
                 /\ left[i] = "*" /\ left[i + 1] = "/"
                 /\ \A j \in 3..i - 1 : ~(left[j] = "*" /\ left[j + 1] = "/")
    ELSE 0

\* The text and the position where the next token, or an unterminated
\* comment, starts.
RECURSIVE SkipTrivia(_, _)
SkipTrivia(left, pos) ==
    LET n == LeadingTrivia(left)
    IN  IF n = 0 THEN [left |-> left, pos |-> pos]
        ELSE SkipTrivia(SubSeq(left, n + 1, Len(left)), StepPosOver(pos, SubSeq(left, 1, n)))

\* What C9 demands of a call that reads its next token from `left` at `pos`.
C9_FailsAt(left, pos, err) ==
    LET here == SkipTrivia(left, pos)
    IN  AtUnterminatedComment(here.left) => err = ErrEof(here.pos, "*/")

C9_Step ==
    IF lx_op' = "new" THEN C9_FailsAt(lx_in', MkPos(1, 1), lx_err')
    ELSE IF lx_op' = "advance" THEN C9_FailsAt(lx.left, lx.pos, lx_err')
    ELSE TRUE

\* C9: whenever the tokenizer, past white space and earlier comments, is at
\* a block comment opener with no terminator after the opener, the call
\* fails with ParseError::Eof { expected: "*/", after: the opener's position }.
C9_UnterminatedCommentFails == [][C9_Step]_vars

PunctTypes == {TRIVIAL_TOKEN_LIST[i].ty : i \in PunctEntries}

\* The pairs (shorter, longer) of punctuation literals, the first a proper
\* prefix of the second, that both match at the start of the text.
NestedMatches(text) ==
    {ab \in PunctEntries \X PunctEntries :
        LET A == TRIVIAL_TOKEN_LIST[ab[1]].pattern
            B == TRIVIAL_TOKEN_LIST[ab[2]].pattern
        IN  Len(A) < Len(B) /\ starts_with(B, A) /\ starts_with(text, B)}

\* The text the tokenizer was at when it read the token now in `next`.
TextAtNext == PatternOf(lx.next.ty) \o lx.left

TableLongestFirst ==
    \A i, j \in PunctEntries :
        LET A == TRIVIAL_TOKEN_LIST[i].pattern
            B == TRIVIAL_TOKEN_LIST[j].pattern
        IN  (Len(A) < Len(B) /\ starts_with(B, A)) => j < i

\* C10: where two punctuation literals both match and one is a proper prefix
\* of the other, the token read is the longer one; and in the table every
\* punctuation literal stands before each of its proper prefixes.
C10_LongestMatch ==
    /\ TableLongestFirst
    /\ (lx_op # "none" /\ lx_err = NoErr /\ lx.next.ty \in PunctTypes) =>
            \A ab \in NestedMatches(TextAtNext) :
                lx.next.ty = TRIVIAL_TOKEN_LIST[ab[2]].ty

C10_Witness ==
    /\ lx_op = "advance" /\ lx_err = NoErr /\ lx.next.ty = "DoubleEq"
    /\ NestedMatches(TextAtNext) # {}

\* The tokens the tokenizer holds.
ReadTokens == {lx.curr, lx.next}

\* The index in the text of the character at a position.
PosIndex(text, pos) ==
    CHOOSE i \in 1..(Len(text) + 1) : StepPosOver(MkPos(1, 1), SubSeq(text, 1, i - 1)) = pos

\* The source text from the start of a token on.
SourceFrom(tok) == SubSeq(lx_in, PosIndex(lx_in, tok.span.start), Len(lx_in))

\* Letters are the alphabetic characters and digits the numeric ones.
IdentStart == Alphabetic \cup {"_"}
IdentChars == Alphabetic \cup Numeric \cup {"_", "@"}

\* The longest prefix of the text made of identifier characters.
IdentRun(text) ==
    SubSeq(text, 1, CHOOSE n \in Boundaries(text) :
                        /\ \A k \in Boundaries(text) : k < n => CharFrom(text, k) \in IdentChars
                        /\ n < Len(text) => CharFrom(text, n) \notin IdentChars)

\* The kind of the table entry whose literal is the run, Id if there is none.
KeywordKind(run) ==
    IF \E i \in 1..Len(TRIVIAL_TOKEN_LIST) : TRIVIAL_TOKEN_LIST[i].pattern = run
    THEN TRIVIAL_TOKEN_LIST[CHOOSE i \in 1..Len(TRIVIAL_TOKEN_LIST) :
                                TRIVIAL_TOKEN_LIST[i].pattern = run].ty
    ELSE "Id"

IsIdentifierToken(tok) ==
    /\ tok.string = to_owned(IdentRun(SourceFrom(tok)))
    /\ tok.ty = KeywordKind(IdentRun(SourceFrom(tok)))
    /\ tok.span.end = StepPosOver(tok.span.start, IdentRun(SourceFrom(tok)))

\* C11: a token that starts at a letter or `_` is the maximal run of
\* letters, digits, `_` and `@` from there, and its kind is the kind of the
\* table literal equal to the whole run, Id if there is none: `int` is Int,
\* `integer`, `int_` and `_x` are Id, `_` is Underscore.
C11_IdentifierOrKeyword ==
    /\ lx_op # "none" =>
            \A tok \in ReadTokens :
                (tok.ty # "Eof" /\ CharFrom(SourceFrom(tok), 0) \in IdentStart) =>
                    IsIdentifierToken(tok)
    /\ (lx_op = "new" /\ lx_in = <<"i", "n", "t">>) => lx.curr.ty = "Int"
    /\ (lx_op = "new" /\ lx_in = <<"_">>) => lx.curr.ty = "Underscore"
    /\ (lx_op = "new" /\ lx_in = TestInteger) =>
            /\ lx.curr = MkToken("Id", "integer", MkSpan(MkPos(1, 1), MkPos(1, 8)))
            /\ lx.next = MkToken("Id", "int_", MkSpan(MkPos(1, 9), MkPos(1, 13)))
    /\ (lx_in = TestInteger /\ lx.next.span.start = MkPos(1, 14)) =>
            lx.next.ty = "Id" /\ lx.next.string = "_x"
    /\ (lx_in = TestInteger /\ lx.next.span.start = MkPos(1, 17)) =>
            lx.next.ty = "Underscore"

C11_Witness ==
    /\ lx_op = "advance" /\ lx_err = NoErr /\ lx_in = TestInteger
    /\ lx.curr.string = "int_" /\ lx.curr.ty = "Id"
    /\ lx.next.string = "_x" /\ lx.next.ty = "Id"

\* String::len: the number of bytes of a string.
RECURSIVE String_len(_)
String_len(string) ==
    IF string = "" THEN 0
    ELSE IF Head(string) = "\\" THEN 1 + String_len(Tail(Tail(Tail(Tail(string)))))
    ELSE 1 + String_len(Tail(string))

\* The columns a token's span covers, for a span within one line.
SpanColumns(tok) == tok.span.end.col - tok.span.start.col

OnOneLine(tok) == tok.span.start.line = tok.span.end.line

\* C12 (as amended): the span of a token within one line covers as many
\* columns as the token's stored string is long, and two more (the quotes)
\* for a string literal, whose stored string is the content between them.
C12_SpanLength ==
    lx_op # "none" =>
        \A tok \in ReadTokens :
            OnOneLine(tok) =>
                SpanColumns(tok) = String_len(tok.string) + (IF tok.ty = "StringLit" THEN 2 ELSE 0)

C12_Witness ==
    /\ lx_op = "advance" /\ lx_err = NoErr /\ lx_in = TestWords
    /\ lx.curr.ty = "StringLit" /\ lx.curr.string = "hi" /\ OnOneLine(lx.curr)
    /\ SpanColumns(lx.curr) = 4

\* C12 as stated: the span of every token within one line, string literals
\* included, covers as many columns as the stored string is long.
C12_AsStated ==
    lx_op # "none" =>
        \A tok \in ReadTokens : OnOneLine(tok) => SpanColumns(tok) = String_len(tok.string)

\* Only white space and terminated comments are left of the text.
OnlyTriviaLeft(left, pos) == Len(SkipTrivia(left, pos).left) = 0

IsEofAt(tok, pos) == tok.ty = "Eof" /\ tok.span = MkSpan(pos, pos)

C20_Step ==
    (lx_op' = "advance" /\ lx_err = NoErr) =>
        /\ OnlyTriviaLeft(lx.left, lx.pos) =>
                /\ lx_err' = NoErr
                /\ IsEofAt(lx'.next, SkipTrivia(lx.left, lx.pos).pos)
                /\ Len(lx'.left) = 0
        /\ Len(lx.left) = 0 =>
                /\ lx'.left = lx.left
                /\ lx'.pos = lx.pos
                /\ lx'.curr = lx.next
        /\ lx.curr.ty = "Eof" =>
                /\ Len(lx.left) = 0
                /\ IsEofAt(lx_tok', lx.pos)
                /\ lx'.left = lx.left /\ lx'.pos = lx.pos
                /\ lx'.curr = lx.curr /\ lx'.next = lx.next

\* C20: once only white space and terminated comments are left, a call of
\* advance succeeds and the token it reads is Eof with an empty span; once
\* nothing is left the text and the position no longer change, and once Eof
\* is current every further call returns Eof and changes nothing.
C20_EofForever == [][C20_Step]_vars

C20_Witness ==
    /\ lx_op = "advance" /\ lx_err = NoErr /\ Len(lx_in) > 0
    /\ lx_eofs = MaxEofCalls
    /\ lx_tok.ty = "Eof"

(***************************************************************************)
(* Claims about the parser.  The trees are compared without their spans.   *)
(***************************************************************************)
SPath(name) == [kind |-> "Path", name |-> name]
SUnary(op, inner) == [kind |-> "Unary", op |-> op, inner |-> inner]
SBinary(op, left, right) == [kind |-> "Binary", op |-> op, left |-> left, right |-> right]
STernary(condition, then_value, else_value) ==
    [kind |-> "Ternary", condition |-> condition, then_value |-> then_value,
     else_value |-> else_value]
SCall(target, args) == [kind |-> "Call", target |-> target, args |-> args]
SArrayIndex(target, index) == [kind |-> "ArrayIndex", target |-> target, index |-> index]
SDotField(target, name) == [kind |-> "DotIndex", target |-> target, field |-> name]
SDotTuple(target, index) == [kind |-> "DotIndex", target |-> target, tuple |-> index]
SCast(value, ty) == [kind |-> "Cast", value |-> value, ty |-> ty]

RECURSIVE Shape(_)
Shape(e) ==
    CASE e.kind = "Path" -> SPath(e.path.id.string)
      [] e.kind = "Unary" -> SUnary(e.op, Shape(e.inner))
      [] e.kind = "Binary" -> SBinary(e.op, Shape(e.left), Shape(e.right))
      [] e.kind = "Ternary" ->
            STernary(Shape(e.condition), Shape(e.then_value), Shape(e.else_value))
      [] e.kind = "Call" -> SCall(Shape(e.target), [i \in 1..Len(e.args) |-> Shape(e.args[i])])
      [] e.kind = "ArrayIndex" -> SArrayIndex(Shape(e.target), Shape(e.index))
      [] e.kind = "DotIndex" ->
            IF e.index.kind = "Tuple" THEN SDotTuple(Shape(e.target), e.index.index)
            ELSE SDotField(Shape(e.target), e.index.id.string)
      [] e.kind = "Cast" ->
            SCast(Shape(e.value), IF e.ty.kind = "Path" THEN e.ty.path.id.string ELSE e.ty.kind)
      [] OTHER -> [kind |-> e.kind]

\* parse_module returned a module.
Parsed == ps_op = "parse_module" /\ ps_out.err = NoErr

\* The initializer of the first item, a const.
ParsedInit == Shape(ps_out.v.items[1].v.init)

\* parse_module was called on `const c: int = <expr>;` and the initializer
\* it returned has this shape.
ParsesAs(expr, shape) == ps_in = ConstText(expr) => Parsed /\ ParsedInit = shape

ApplyPostfix(k, inner) ==
    CASE k = 1 -> SDotField(inner, "f")
      [] k = 2 -> SDotTuple(inner, 0)
      [] k = 3 -> SCall(inner, <<SPath("b")>>)
      [] k = 4 -> SArrayIndex(inner, SPath("b"))
      [] k = 5 -> SCast(inner, "T")

\* The prefix operators, the one next to the atom innermost.
RECURSIVE ApplyPrefixes(_, _)
ApplyPrefixes(pre, inner) ==
    IF Len(pre) = 0 THEN inner
    ELSE SUnary(PREFIX_OPERATOR_INFO[Head(pre)].op, ApplyPrefixes(Tail(pre), inner))

\* C6 (as amended): the unary layer parses `* & x.f` as `*(&(x.f))` and
\* `&x.f as T` as `(&(x.f)) as T`.
C6_UnaryLayer ==
    /\ ParsesAs(TestDerefRefDot, SUnary("Deref", SUnary("Ref", SDotField(SPath("x"), "f"))))
    /\ ParsesAs(TestRefDotCast, SCast(SUnary("Ref", SDotField(SPath("x"), "f")), "T"))

\* Witness of C6: `&x.f as T` was parsed as `(&(x.f)) as T`.
C6_Witness ==
    /\ Parsed
    /\ ps_in = ConstText(TestRefDotCast)
    /\ ParsedInit = SCast(SUnary("Ref", SDotField(SPath("x"), "f")), "T")

\* C6 as stated: `* & x.f` parses as `*(&(x.f))` and `&x.f as T` parses as
\* `((&x).f) as T`.
C6_AsStated ==
    /\ ParsesAs(TestDerefRefDot, SUnary("Deref", SUnary("Ref", SDotField(SPath("x"), "f"))))
    /\ ParsesAs(TestRefDotCast, SCast(SDotField(SUnary("Ref", SPath("x")), "f"), "T"))

\* The levels the claim gives the binary operators.
StatedLevel(op) ==
    IF op \in {"Mul", "Div", "Mod"} THEN 6
    ELSE IF op \in {"Add", "Sub"} THEN 5
    ELSE 3

\* The tree of the operands lo..hi of a chain: its root is the last of the
\* operators of the lowest level, so that a higher level binds tighter and
\* one level associates to the left.
RECURSIVE ExpectedTreeOver(_, _, _)
ExpectedTreeOver(ops, lo, hi) ==
    IF lo = hi THEN SPath(OperandNames[lo])
    ELSE LET level(k) == StatedLevel(BINARY_OPERATOR_INFO[ops[k]].op)
             root == CHOOSE k \in lo..(hi - 1) :
                        /\ \A j \in lo..(hi - 1) : level(k) <= level(j)
                        /\ \A j \in (k + 1)..(hi - 1) : level(k) < level(j)
         IN  SBinary(BINARY_OPERATOR_INFO[ops[root]].op,
                     ExpectedTreeOver(ops, lo, root), ExpectedTreeOver(ops, root + 1, hi))

ExpectedTree(ops) == ExpectedTreeOver(ops, 1, Len(ops) + 1)

BinChainTable == {<<ConstText(ChainText(ops)), ExpectedTree(ops)>> : ops \in BinChains}

\* C7: in every chain of binary operators * / % bind tighter than + -,
\* which bind tighter than the comparisons, and operators of one level
\* associate to the left: `a - b - c` is `(a - b) - c`, `a + b * c` is
\* `a + (b * c)`, `a * b + c` is `(a * b) + c`, `a == b + c` is `a == (b + c)`.
C7_PrecedenceAndAssociativity ==
    /\ ParsesAs(TestSubSub, SBinary("Sub", SBinary("Sub", SPath("a"), SPath("b")), SPath("c")))
    /\ ParsesAs(TestAddMul, SBinary("Add", SPath("a"), SBinary("Mul", SPath("b"), SPath("c"))))
    /\ ParsesAs(TestMulAdd, SBinary("Add", SBinary("Mul", SPath("a"), SPath("b")), SPath("c")))
    /\ ParsesAs(TestEqAdd, SBinary("Eq", SPath("a"), SBinary("Add", SPath("b"), SPath("c"))))
    /\ \A e \in BinChainTable : ps_in = e[1] => Parsed /\ ParsedInit = e[2]

C7_Witness ==
    /\ Parsed
    /\ ps_in = ConstText(TestSubSub)
    /\ ParsedInit.kind = "Binary"
    /\ ParsedInit.left.kind = "Binary"

CondShape(k) ==
    IF k = 0 THEN SPath("a")
    ELSE SBinary(BINARY_OPERATOR_INFO[k].op, SPath("a"), SPath("b"))

\* cond1 ? c : (cond2 ? c : (... : d * e))
RECURSIVE ExpectedTernary(_)
ExpectedTernary(conds) ==
    IF Len(conds) = 0 THEN SBinary("Mul", SPath("d"), SPath("e"))
    ELSE STernary(CondShape(Head(conds)), SPath("c"), ExpectedTernary(Tail(conds)))

TernaryTable ==
    {<<ConstText(TernaryText(conds)), ExpectedTernary(conds)>> : conds \in TernaryChains}

\* C8: the ternary operator is right-associative and binds looser than every
\* binary operator: `a ? b : c ? d : e` parses as `a ? b : (c ? d : e)`,
\* `a == b ? c : d` has the condition `a == b`, and a binary expression
\* before `?` or after `:` is wholly the condition or the else value.
C8_TernaryRightAssociative ==
    /\ ParsesAs(TestTernaryChain,
                STernary(SPath("a"), SPath("b"), STernary(SPath("c"), SPath("d"), SPath("e"))))
    /\ ParsesAs(TestTernaryCond,
                STernary(SBinary("Eq", SPath("a"), SPath("b")), SPath("c"), SPath("d")))
    /\ \A e \in TernaryTable : ps_in = e[1] => Parsed /\ ParsedInit = e[2]

C8_Witness ==
    /\ Parsed
    /\ ps_in = ConstText(TestTernaryChain)
    /\ ParsedInit.kind = "Ternary"
    /\ ParsedInit.else_value.kind = "Ternary"

(***************************************************************************)
(* Claims about the expressions of the type walk                           *)
(***************************************************************************)

\* A walk of a body that is one expression statement of the given kind has
\* returned.
IsExprWalk(kind) ==
    /\ tw_out.res # "none"
    /\ tw_in.body.some
    /\ Len(tw_in.body.v.statements) = 1
    /\ tw_in.body.v.statements[1].kind = "Expression"
    /\ tw_in.body.v.statements[1].v.kind = kind

\* The expression of that statement.
WalkedExpr == tw_in.body.v.statements[1].v

\* The variable is known to be a pointer, known to be an integer or an
\* integer yet to be chosen.
IsPointerVar(w, v) == w.vars[v].kind = "Known" /\ w.vars[v].info.kind = "Pointer"
IsIntegerVar(w, v) ==
    \/ w.vars[v].kind = "UnknownInt"
    \/ w.vars[v].kind = "Known" /\ w.vars[v].info.kind \in {"Byte", "Int"}

\* The variable is a pointer, or an Equal constraint ties it to one.
ConstrainedToPointer(w, v) ==
    \/ IsPointerVar(w, v)
    \/ \E i \in 1..Len(w.cons) :
          /\ w.cons[i].kind = "Equal"
          /\ \/ w.cons[i].a = v /\ IsPointerVar(w, w.cons[i].b)
             \/ w.cons[i].b = v /\ IsPointerVar(w, w.cons[i].a)

\* C13: a cast `v as T` that the walk accepts is pointer-to-pointer: the
\* variable of the operand v and the variable of the cast expression (the
\* target type T) are both constrained to a pointer type, so that `p as int`
\* is not accepted.
C13_CastPointerToPointer ==
    (IsExprWalk("Cast") /\ tw_out.res = "Ok") =>
        /\ ConstrainedToPointer(tw_out, tw_out.expr_type_map[1])
        /\ ConstrainedToPointer(tw_out, tw_out.expr_type_map[2])

\* The operand of an accepted cast is constrained to a pointer type.
C13_OperandIsPointer ==
    (IsExprWalk("Cast") /\ tw_out.res = "Ok") =>
        ConstrainedToPointer(tw_out, tw_out.expr_type_map[1])

\* The statement, and the function, with every declaration of the body made
\* immutable.
Unmut(stmt) ==
    IF stmt.kind = "Declaration" THEN [stmt EXCEPT !.v.mutable = FALSE] ELSE stmt
UnmutFunc(func) ==
    [func EXCEPT !.body.v.statements = [i \in 1..Len(@) |-> Unmut(@[i])]]

\* What a walk leaves behind, without the origins of the variables: the
\* result, the kinds of the variables, the constraints and the variables of
\* the declarations.
Posted(w) ==
    [res |-> w.res, kinds |-> [v \in 1..Len(w.vars) |-> w.vars[v].kind],
     cons |-> w.cons, decl_type_map |-> w.decl_type_map]

\* C14: the walk of a body with `let mut` declarations returns, and leaves
\* behind, what the walk of the same body without `mut` does.
C14_MutLikeImmutable ==
    (tw_out.res # "none" /\ tw_in.body.some) =>
        Posted(tw_out) =
            Posted(self_visit_func(TypeFuncState_new(tw_in.ret_ty), EmptyValues, UnmutFunc(tw_in)))

\* The type a variable is known to have, or its kind.
VarType(w, v) == IF w.vars[v].kind = "Known" THEN w.vars[v].info ELSE w.vars[v].kind

\* C15: the variable of `a + b` and of `a - b` is the pointer's when exactly
\* one operand is a pointer and the other an integer, on either side, and
\* the integer type when both operands are that integer type.
C15_AddSubType ==
    (IsExprWalk("Binary") /\ WalkedExpr.op \in {"Add", "Sub"} /\ tw_out.res = "Ok") =>
        LET l == tw_out.expr_type_map[1]
            r == tw_out.expr_type_map[2]
            e == tw_out.expr_type_map[3]
        IN  /\ (IsPointerVar(tw_out, l) /\ IsIntegerVar(tw_out, r)) =>
                    VarType(tw_out, e) = VarType(tw_out, l)
            /\ (IsIntegerVar(tw_out, l) /\ IsPointerVar(tw_out, r)) =>
                    VarType(tw_out, e) = VarType(tw_out, r)
            /\ (IsIntegerVar(tw_out, l) /\ VarType(tw_out, l) = VarType(tw_out, r)) =>
                    VarType(tw_out, e) = VarType(tw_out, l)

\* The cst type a fully known variable stands for.
RECURSIVE CstTypeOf(_, _)
CstTypeOf(w, v) ==
    IF w.vars[v].info.kind = "Pointer" THEN CstPointer(CstTypeOf(w, w.vars[v].info.inner))
    ELSE w.vars[v].info

\* The walk of `return v` / `return` has posted, as its only constraint,
\* Equal(R, type of v) / Equal(R, void), R being the declared return type.
C16_ReturnPostsEqual ==
    (IsExprWalk("Return") /\ tw_out.res = "Ok") =>
        /\ Len(tw_out.cons) = 1
        /\ tw_out.cons[1].kind = "Equal"
        /\ CstTypeOf(tw_out, tw_out.cons[1].a) = tw_in.ret_ty
        /\ tw_out.cons[1].b = IF WalkedExpr.value.some THEN tw_out.expr_type_map[1]
                              ELSE ty_void(tw_out)

\* The declaration of main in the program lowered, and the walk that lower
\* makes of it.
MainDecl == lw_in.funcs[lw_in.main_func]
MainWalk ==
    self_visit_func(TypeFuncState_new(MainDecl.func_ty.ret), module_scope_of(lw_in),
                    MainDecl.ast)

\* The body of main in the program lowered is `{ return [v]; }`.
MainReturns ==
    /\ lw_op = "lower"
    /\ MainDecl.ast.body.some
    /\ Len(MainDecl.ast.body.v.statements) = 1
    /\ MainDecl.ast.body.v.statements[1].kind = "Expression"
    /\ MainDecl.ast.body.v.statements[1].v.kind = "Return"

\* The program lowered is the single function
\* `fun main(..) -> int { return <bool literal>; }`.
MainReturnsBool ==
    /\ MainReturns
    /\ Len(lw_in.funcs) = 1
    /\ lw_in.consts = <<>>
    /\ ~MainDecl.ast.ext
    /\ MainDecl.func_ty.ret = CstInt
    /\ MainDecl.ast.body.v.statements[1].v.value.some
    /\ MainDecl.ast.body.v.statements[1].v.value.v.kind = "BoolLit"

WithBody(funcs, i) == {j \in 1..i : funcs[j].ast.body.some}

\* The constant is a literal of a kind its declared type fits, with a value
\* of 32 bits.
LiteralFits(decl) ==
    map_constant(Program_default, decl).res = "Ok"

\* Every function of the program is extern or has a body and every constant
\* is a literal that fits: nothing fails before main is looked at.
AllDeclarationsMap ==
    /\ \A i \in 1..Len(lw_in.funcs) :
          lw_in.funcs[i].ast.ext \/ lw_in.funcs[i].ast.body.some
    /\ \A i \in 1..Len(lw_in.consts) : LiteralFits(lw_in.consts[i])

\* When lower returns Ok(program): main has a body, and program.main is the
\* ir function made for it, not the sentinel and not an extern.
MainOfOkProgram ==
    (lw_op = "lower" /\ lw_out.res = "Ok") =>
        LET program == lw_out.prog.v
        IN  /\ MainDecl.ast.body.some
            /\ program.main # Function_sentinel
            /\ program.main.arena = "funcs"
            /\ program.main.idx = Cardinality(WithBody(lw_in.funcs, lw_in.main_func))
            /\ Len(program.funcs) = Cardinality(WithBody(lw_in.funcs, Len(lw_in.funcs)))
            /\ program.funcs[program.main.idx].debug_name = Some("main")
            /\ program.funcs[program.main.idx].func_ty = map_type_func(MainDecl.func_ty)

\* C17: when lower returns Ok(program), program.main is the ir function made
\* for the declaration of main, which has a body, never an extern and never
\* the sentinel; when main is extern without a body and every function and
\* constant of the program maps, lower returns MainFunctionMustHaveBody.
C17_MainIsFunctionWithBody ==
    /\ MainOfOkProgram
    /\ (/\ lw_op = "lower"
        /\ MainDecl.ast.ext /\ ~MainDecl.ast.body.some
        /\ AllDeclarationsMap) => lw_out.res = "MainFunctionMustHaveBody"

\* Witness of C17: lower has returned Ok for `extern fun f(n: int); fun
\* main(..) ..`, main being the second declaration and the first ir function.
C17_Witness ==
    /\ lw_op = "lower"
    /\ lw_out.res = "Ok"
    /\ lw_in.main_func = 2
    /\ lw_in.funcs[1].ast.ext
    /\ lw_out.prog.v.main = Node("funcs", 1)
    /\ Len(lw_out.prog.v.exts) = 1

\* C17 as stated: main extern without a body makes lower return
\* MainFunctionMustHaveBody, whatever else the program holds.
C17_AsStated ==
    /\ MainOfOkProgram
    /\ (/\ lw_op = "lower"
        /\ MainDecl.ast.ext /\ ~MainDecl.ast.body.some) =>
            lw_out.res = "MainFunctionMustHaveBody"

\* The digits without their leading zeros.
RECURSIVE StripZeros(_)
StripZeros(digits) ==
    IF Len(digits) > 1 /\ Head(digits) = "0" THEN StripZeros(Tail(digits)) ELSE digits

\* a <= b for two runs of digits of the same length.
RECURSIVE DigitsLeq(_, _)
DigitsLeq(a, b) ==
    \/ Len(a) = 0
    \/ digit_value(Head(a)) < digit_value(Head(b))
    \/ Head(a) = Head(b) /\ DigitsLeq(Tail(a), Tail(b))

\* The run of digits is a number of at most 2^31 - 1.
FitsI32(digits) ==
    \/ Len(StripZeros(digits)) < 10
    \/ Len(StripZeros(digits)) = 10 /\ DigitsLeq(StripZeros(digits), "2147483647")

\* The values and the bytes of the literals mapped.
LiteralValue ==
    [v \in {"0", "007", "255", "256", "2147483647"} |->
        CASE v = "0" -> 0 [] v = "007" -> 7 [] v = "255" -> 255 [] v = "256" -> 256
          [] v = "2147483647" -> 2147483647]
LiteralBytes ==
    [v \in {"hi", "", "a 1"} |->
        CASE v = "hi" -> <<104, 105>> [] v = "" -> <<>> [] v = "a 1" -> <<97, 32, 49>>]

\* The call of map_constant: its arguments and what it returned.
MappedType == lw_in.decl.ty
MappedInit == lw_in.decl.ast.init
IsMapped(kind) == lw_op = "map_constant" /\ MappedInit.kind = kind

\* map_constant returned Ok with the Const `value` of the ir type `ty`, the
\* ir program left as it was.
ReturnsConst(ty, value) ==
    /\ lw_out.res = "Ok"
    /\ lw_out.value = Right(MappedType, ValueConst(ty, value))
    /\ lw_out.prog = lw_in.ir_prog

\* map_constant returned the error, the ir program left as it was.
ReturnsError(err) == lw_out.res = err /\ lw_out.prog = lw_in.ir_prog

\* Bool, string and null literals: accepted exactly when the declared type
\* is bool, &byte, some pointer.
OtherLiterals ==
    /\ IsMapped("BoolLit") =>
          IF MappedType = CstBool
          THEN ReturnsConst(IrInt(1), IF MappedInit.value THEN 1 ELSE 0)
          ELSE ReturnsError("TypeMismatch")
    /\ IsMapped("StringLit") =>
          IF MappedType = CstPointer(CstByte)
          THEN /\ lw_out.res = "Ok"
               /\ Len(lw_out.prog.datas) = Len(lw_in.ir_prog.datas) + 1
               /\ SubSeq(lw_out.prog.datas, 1, Len(lw_in.ir_prog.datas)) = lw_in.ir_prog.datas
               /\ lw_out.prog.datas[Len(lw_out.prog.datas)].bytes = LiteralBytes[MappedInit.value]
               /\ lw_out.prog.datas[Len(lw_out.prog.datas)].ty = IrPtr
               /\ lw_out.value = Right(MappedType, ValueData(Node("datas", Len(lw_out.prog.datas))))
               /\ [lw_out.prog EXCEPT !.datas = <<>>] = [lw_in.ir_prog EXCEPT !.datas = <<>>]
          ELSE ReturnsError("TypeMismatch")
    /\ IsMapped("Null") =>
          IF MappedType.kind = "Pointer" THEN ReturnsConst(IrPtr, 0)
          ELSE ReturnsError("ExpectPointerType")

\* C18: map_constant accepts a bool, string or null literal exactly when
\* the declared type is bool, &byte, a pointer, and an integer literal
\* exactly when the declared type is byte or int and the literal is at most
\* 2^31 - 1; it returns ExpectIntegerType, InvalidLiteral, TypeMismatch
\* (bool, string) or ExpectPointerType otherwise and then leaves the ir
\* program alone.  An accepted string defines one Data of its bytes and the
\* pointer type, an accepted null is the Const 0.
C18_LiteralFitsType ==
    /\ OtherLiterals
    /\ IsMapped("IntLit") =>
          IF MappedType.kind \notin {"Byte", "Int"} THEN ReturnsError("ExpectIntegerType")
          ELSE IF ~FitsI32(MappedInit.value) THEN ReturnsError("InvalidLiteral")
          ELSE ReturnsConst(IF MappedType.kind = "Byte" THEN IrInt(8) ELSE IrInt(32),
                            LiteralValue[MappedInit.value])

\* Witness of C18: the string "a 1" of type &byte was accepted on a program
\* that held one Data already.
C18_Witness ==
    /\ IsMapped("StringLit")
    /\ MappedInit.value = "a 1"
    /\ lw_out.res = "Ok"
    /\ Len(lw_in.ir_prog.datas) = 1
    /\ Len(lw_out.prog.datas) = 2

\* C18 as stated: an integer literal is accepted exactly when the declared
\* type is byte or int.
C18_AsStated ==
    /\ OtherLiterals
    /\ IsMapped("IntLit") =>
          IF MappedType.kind \in {"Byte", "Int"} THEN lw_out.res = "Ok"
          ELSE ReturnsError("ExpectIntegerType")

\* C19: map_constant returns a value or a structured error for every
\* initializer that is an expression; it never panics.
C19_NoPanicInMapConstant ==
    lw_op = "map_constant" =>
        lw_out.res \in {"Ok", "TypeMismatch", "ExpectIntegerType", "ExpectPointerType",
                        "InvalidLiteral"}

\* C25: a declare that returns IdentifierDeclaredTwice leaves the scope as it
\* was: find and find_immediate_str of the identifier still return the value
\* of the first declaration, and size() is unchanged.
C25_Step ==
    (sc_call'.op = "declare" /\ sc_res' = ScErr("IdentifierDeclaredTwice")) =>
        /\ sc_chain' = sc_chain
        /\ find_immediate_str(sc_chain', sc_call'.id) = find_immediate_str(sc_chain, sc_call'.id)
        /\ find(sc_chain', Len(sc_chain'), <<>>, sc_call'.id)
              = find(sc_chain, Len(sc_chain), <<>>, sc_call'.id)
        /\ size(sc_chain') = size(sc_chain)

C25_FailedDeclareKeepsScope == [][C25_Step]_vars

\* The literal is a number of at most 8 bits (255).
FitsByte(digits) ==
    \/ Len(StripZeros(digits)) < 3
    \/ Len(StripZeros(digits)) = 3 /\ DigitsLeq(StripZeros(digits), "255")

\* C28: an integer literal that its declared type cannot represent (more
\* than 32 bits for int, more than 8 bits for byte) is rejected with
\* InvalidLiteral, and every integer Const produced fits the width of its ir
\* type.
C28_LiteralFitsWidth ==
    IsMapped("IntLit") =>
        /\ (MappedType.kind = "Int" /\ ~FitsI32(MappedInit.value)) =>
              ReturnsError("InvalidLiteral")
        /\ (MappedType.kind = "Byte" /\ ~FitsByte(MappedInit.value)) =>
              ReturnsError("InvalidLiteral")
        /\ lw_out.res = "Ok" =>
              /\ lw_out.value.ir.ty.kind = "Integer"
              /\ lw_out.value.ir.ty.bits = 8 => lw_out.value.ir.value \in 0..255

\* C29: map_type maps void to the ir void type, bool, byte and int to the
\* integers of 1, 8 and 32 bits and every pointer to the one ir pointer
\* type, so that void is never mapped to the type of a pointer.
C29_MapTypeKeepsKinds ==
    lw_op = "map_type" =>
        /\ lw_in.kind = "Void" => lw_out = ty_void_ir
        /\ lw_in.kind = "Bool" => lw_out = IrInt(1)
        /\ lw_in.kind = "Byte" => lw_out = IrInt(8)
        /\ lw_in.kind = "Int" => lw_out = IrInt(32)
        /\ lw_in.kind = "Pointer" => lw_out = ty_ptr_ir
        /\ lw_in.kind = "Void" => lw_out # map_type(CstPointer(CstVoid))

\* A run of items and separators that is a list: items and separators
\* alternate from an item on, so that it is empty or ends in an item or in
\* one separator after an item.
IsList(seq) == \A j \in 1..Len(seq) : seq[j] = (IF j % 2 = 1 THEN "item" ELSE "sep")

NumItems(seq) == Cardinality({j \in 1..Len(seq) : seq[j] = "item"})

\* C21: list(end, sep, item) accepts `end`, `item (sep item)* end` and
\* `item (sep item)* sep end` and nothing else: it returns the items in
\* source order and has consumed `end`; two items without a separator, two
\* separators in a row, a leading separator and a missing `end` are
\* UnexpectedToken errors.
C21_ListGrammar ==
    \A c \in ListChains :
        ps_in = ConstText(ListText(c[1], c[2])) =>
            IF c[2] /\ IsList(c[1])
            THEN /\ Parsed
                 /\ ParsedInit = SCall(SPath("x"),
                                       [k \in 1..NumItems(c[1]) |-> SPath(OperandNames[k])])
            ELSE ps_out.err.kind = "Token"

\* Witness of C21: x( a, b,) was parsed as the call of x on a and b.
C21_Witness ==
    /\ Parsed
    /\ ps_in = ConstText(ListText(<<"item", "sep", "item", "sep">>, TRUE))
    /\ ParsedInit = SCall(SPath("x"), <<SPath("a"), SPath("b")>>)

\* The postfix operators post[i..j], applied to inner in source order.
RECURSIVE ApplyPostfixRun(_, _, _, _)
ApplyPostfixRun(post, i, j, inner) ==
    IF i > j THEN inner ELSE ApplyPostfixRun(post, i + 1, j, ApplyPostfix(post[i], inner))

\* The place of the first cast of a run of postfix operators, one past its
\* end if it has no cast.
FirstCast(post) ==
    CHOOSE k \in 1..(Len(post) + 1) :
        /\ \A j \in 1..(k - 1) : post[j] # Len(PostfixTexts)
        /\ k <= Len(post) => post[k] = Len(PostfixTexts)

\* The order the claim gives: the postfix operators before the first cast,
\* the prefix operators from the atom outwards, the first cast and the
\* postfix operators after it.
ExpectedOrder(pre, post) ==
    ApplyPostfixRun(post, FirstCast(post), Len(post),
        ApplyPrefixes(pre, ApplyPostfixRun(post, 1, FirstCast(post) - 1, SPath("x"))))

\* C26: for every run of prefix operators and every run of postfix
\* operators around an atom, unary does not fail its assertion and applies
\* every operator once: the postfix operators in source order, the prefix
\* operators from the atom outwards, the calls, indexes and fields before the
\* first cast before every prefix operator, every prefix operator before the
\* first cast.
C26_UnaryApplicationOrder ==
    \A c \in UnaryChains :
        ps_in = ConstText(UnaryText(c[1], c[2])) =>
            /\ ps_out.err.kind # "panic"
            /\ Parsed
            /\ ParsedInit = ExpectedOrder(c[1], c[2])

\* Witness of C26: `-x as T.f` was parsed as ((-x) as T).f.
C26_Witness ==
    /\ Parsed
    /\ ps_in = ConstText(UnaryText(<<3>>, <<5, 1>>))
    /\ ParsedInit = SDotField(SCast(SUnary("Neg", SPath("x")), "T"), "f")

\* The token types that have an arm of their own in the match of atomic.
AtomicStarts ==
    {"IntLit", "True", "False", "Null", "StringLit", "Id", "OpenB", "Return", "Continue",
     "Break"}

\* C27: when atomic rejects a token, the `allowed` list of the error holds
\* every token type atomic accepts as the start of an expression.
C27_AllowedCoversAtomic ==
    (ps_op = "parse_module" /\ ps_out.err.kind = "Token"
        /\ ps_out.err.description = "expression") =>
        AtomicStarts \subseteq {ps_out.err.allowed[i] : i \in 1..Len(ps_out.err.allowed)}

\* The spans and the paths of a parsed module: <<"span", s>> for the span of
\* every node and <<"path", p>> for every Path, collected from the items
\* down to the identifiers.
SpanOf(node) == {<<"span", node.span>>}
PartsOfOption(opt, Parts(_)) == IF opt.some THEN Parts(opt.v) ELSE {}
PartsOfAll(nodes, Parts(_)) == UNION {Parts(nodes[i]) : i \in 1..Len(nodes)}

PartsOfPath(pth) ==
    SpanOf(pth) \cup {<<"path", pth>>} \cup SpanOf(pth.id) \cup PartsOfAll(pth.parents, SpanOf)

RECURSIVE PartsOfType(_)
PartsOfType(ty) ==
    SpanOf(ty) \cup
        CASE ty.kind = "Ref" -> PartsOfType(ty.inner)
          [] ty.kind = "Path" -> PartsOfPath(ty.path)
          [] ty.kind = "Func" -> PartsOfAll(ty.params, PartsOfType) \cup PartsOfType(ty.ret)
          [] ty.kind = "Tuple" -> PartsOfAll(ty.fields, PartsOfType)
          [] ty.kind = "Array" -> PartsOfType(ty.inner)
          [] OTHER -> {}

RECURSIVE PartsOfExpr(_)
PartsOfExpr(e) ==
    SpanOf(e) \cup
        CASE e.kind = "Path" -> PartsOfPath(e.path)
          [] e.kind = "Unary" -> PartsOfExpr(e.inner)
          [] e.kind = "Binary" -> PartsOfExpr(e.left) \cup PartsOfExpr(e.right)
          [] e.kind = "Ternary" ->
                PartsOfExpr(e.condition) \cup PartsOfExpr(e.then_value)
                    \cup PartsOfExpr(e.else_value)
          [] e.kind = "Call" -> PartsOfExpr(e.target) \cup PartsOfAll(e.args, PartsOfExpr)
          [] e.kind = "ArrayIndex" -> PartsOfExpr(e.target) \cup PartsOfExpr(e.index)
          [] e.kind = "DotIndex" ->
                PartsOfExpr(e.target)
                    \cup (IF e.index.kind = "Tuple" THEN SpanOf(e.index) ELSE SpanOf(e.index.id))
          [] e.kind = "Cast" -> PartsOfExpr(e.value) \cup PartsOfType(e.ty)
          [] e.kind = "Return" -> PartsOfOption(e.value, PartsOfExpr)
          [] OTHER -> {}

RECURSIVE PartsOfBlock(_)
PartsOfStatement(stmt) ==
    SpanOf(stmt) \cup
        CASE stmt.kind = "Declaration" ->
                SpanOf(stmt.v) \cup SpanOf(stmt.v.id) \cup PartsOfOption(stmt.v.ty, PartsOfType)
                    \cup PartsOfOption(stmt.v.init, PartsOfExpr)
          [] stmt.kind = "Assignment" ->
                SpanOf(stmt.v) \cup PartsOfExpr(stmt.v.left) \cup PartsOfExpr(stmt.v.right)
          [] stmt.kind = "If" ->
                SpanOf(stmt.v) \cup PartsOfExpr(stmt.v.cond) \cup PartsOfBlock(stmt.v.then_block)
                    \cup PartsOfOption(stmt.v.else_block, PartsOfBlock)
          [] stmt.kind = "While" ->
                SpanOf(stmt.v) \cup PartsOfExpr(stmt.v.cond) \cup PartsOfBlock(stmt.v.body)
          [] stmt.kind = "For" ->
                SpanOf(stmt.v) \cup SpanOf(stmt.v.index)
                    \cup PartsOfOption(stmt.v.index_ty, PartsOfType)
                    \cup PartsOfExpr(stmt.v.start) \cup PartsOfExpr(stmt.v.end)
                    \cup PartsOfBlock(stmt.v.body)
          [] stmt.kind = "Block" -> PartsOfBlock(stmt.v)
          [] stmt.kind = "Expression" -> PartsOfExpr(stmt.v)

PartsOfBlock(blk) == SpanOf(blk) \cup PartsOfAll(blk.statements, PartsOfStatement)

PartsOfField(field) == SpanOf(field) \cup SpanOf(field.id) \cup PartsOfType(field.ty)

PartsOfItem(it) ==
    SpanOf(it.v) \cup
        CASE it.kind = "Struct" -> SpanOf(it.v.id) \cup PartsOfAll(it.v.fields, PartsOfField)
          [] it.kind = "Function" ->
                SpanOf(it.v.id) \cup PartsOfOption(it.v.ret_ty, PartsOfType)
                    \cup PartsOfAll(it.v.params, PartsOfField)
                    \cup PartsOfOption(it.v.body, PartsOfBlock)
          [] it.kind = "Const" ->
                SpanOf(it.v.id) \cup PartsOfType(it.v.ty) \cup PartsOfExpr(it.v.init)
          [] it.kind = "UseDecl" -> PartsOfPath(it.v.path)

\* The parts of the module parse_module returned, with the spans of the two
\* tokens the tokenizer holds at the end.
ParsedParts ==
    PartsOfAll(ps_out.v.items, PartsOfItem)
        \cup SpanOf(ps_out.p.tokenizer.curr) \cup SpanOf(ps_out.p.tokenizer.next)

ParsedSpans == {part[2] : part \in {q \in ParsedParts : q[1] = "span"}}
ParsedPaths == {part[2] : part \in {q \in ParsedParts : q[1] = "path"}}

\* a <= b for two positions of one file.
PosLeq(a, b) == a.line < b.line \/ (a.line = b.line /\ a.col <= b.col)

\* C30: the span of a parsed path starts at the start of its first segment
\* and ends at the end of its last segment, however many parents it has.
C30_PathSpanCoversPath ==
    Parsed =>
        \A pth \in ParsedPaths :
            /\ pth.span.start = (IF Len(pth.parents) > 0 THEN pth.parents[1].span.start
                                 ELSE pth.id.span.start)
            /\ pth.span.end = pth.id.span.end

\* C22: in every module that parses, every span of a token, an expression, a
\* path, a type, a statement, a block or an item ends at or after its start,
\* and every position has a line and a column of at least 1.
C22_SpansWellFormed ==
    Parsed =>
        \A sp \in ParsedSpans :
            /\ PosLeq(sp.start, sp.end)
            /\ sp.start.line >= 1 /\ sp.start.col >= 1
            /\ sp.end.line >= 1 /\ sp.end.col >= 1

\* Witness of C22: a function over several lines was parsed; it has a span
\* that ends on a later line than it starts and the empty span of Eof.
C22_Witness ==
    /\ Parsed
    /\ ps_in = TestModuleLet
    /\ \E sp \in ParsedSpans : sp.end.line > sp.start.line
    /\ \E sp \in ParsedSpans : sp.end = sp.start /\ sp.start.line > 1
(***************************************************************************)
(* C23: skip_count against stepping over the skipped text character by     *)
(* character.                                                              *)
(***************************************************************************)
\* One character is stepped over: a newline starts the next line at column
\* 1, any other character moves one column on.
StepChar(pos, first_byte) ==
    IF first_byte = "\n" THEN MkPos(pos.line + 1, 1) ELSE MkPos(pos.line, pos.col + 1)

\* The position after the characters encoded by `text`, stepped over in order:
\* a character is stepped over at its first byte.
RECURSIVE StepChars(_, _)
StepChars(pos, text) ==
    IF Len(text) = 0 THEN pos
    ELSE StepChars(IF is_continuation(Head(text)) THEN pos ELSE StepChar(pos, Head(text)),
                   Tail(text))

\* C23: after skip_count has skipped a prefix of the remaining input, pos is
\* the position reached from the old pos by stepping over each skipped
\* character in order, (line+1, col=1) on a newline and (line, col+1) otherwise.
C23_SkipCountStepsByCharacter ==
    lx_op = "skip_count" =>
        lx.pos = StepChars(lx_from.pos, SubSeq(lx_from.left, 1, lx_count))

(***************************************************************************)
(* C24: try_visit_blocks on block graphs.                                  *)
(***************************************************************************)
\* The successors of a block, read off its terminator.
Successors(func, b) ==
    LET terminator == func.blocks[b]
    IN  IF terminator.kind = "Jump" THEN {terminator.target.block}
        ELSE IF terminator.kind = "Branch"
             THEN {terminator.true_target.block, terminator.false_target.block}
             ELSE {}

\* The blocks reachable from those of `reached` through successors.
RECURSIVE ReachableFrom(_, _)
ReachableFrom(func, reached) ==
    LET more == reached \cup UNION {Successors(func, b) : b \in reached}
    IN  IF more = reached THEN reached ELSE ReachableFrom(func, more)

Reachable(func) == ReachableFrom(func, {func.entry})

CalledBlocks == {ir_calls[i] : i \in 1..Len(ir_calls)}

\* f is called at most once on a block, only on reachable blocks and first
\* on the entry; a call that returned Ok(()) made no call of f fail and
\* called f on every reachable block; an error is the one f returned on the
\* last block it was called on.
C24_Calls ==
    /\ \A i, j \in 1..Len(ir_calls) : ir_calls[i] = ir_calls[j] => i = j
    /\ CalledBlocks \subseteq Reachable(ir_func)
    /\ Len(ir_calls) > 0 => ir_calls[1] = ir_func.entry
    /\ ir_op = "returned" /\ ir_res.ok => CalledBlocks = Reachable(ir_func)
    /\ ~ir_res.ok => /\ ir_op = "returned"
                     /\ Len(ir_calls) > 0
                     /\ ir_res = IrErr(ir_calls[Len(ir_calls)])

\* Once the call has returned f is called no more.
C24_Stopped == ir_op = "returned" => ir_calls' = ir_calls /\ ir_res' = ir_res

\* C24: try_visit_blocks(func, f) terminates on every block graph, cycles
\* and self-loops included; when f never fails it calls f exactly once on
\* each block reachable from the entry through terminator successors, on no
\* other block, and on the entry first; an error of f stops the traversal at
\* once: f is called on no further block and that error is returned.
C24_VisitBlocks ==
    /\ []C24_Calls
    /\ [][C24_Stopped]_vars
    /\ (ir_op = "visiting") ~> (ir_op = "returned")

\* A traversal that returned Ok(()) on a function whose entry branches to a
\* block that jumps back to the entry and to a block that jumps to itself.
C24_Witness ==
    /\ ir_op = "returned"
    /\ ir_res = IrOk
    /\ Len(ir_calls) = 3
    /\ ir_func.blocks[ir_calls[1]] =
           Terminator_Branch(Target(ir_calls[2]), Target(ir_calls[3]))
    /\ ir_func.blocks[ir_calls[2]] = Terminator_Jump(Target(ir_calls[1]))
    /\ ir_func.blocks[ir_calls[3]] = Terminator_Jump(Target(ir_calls[3]))

=============================================================================
